---------------------------- MODULE Spec2Model ----------------------------
(***************************************************************************)
(* Model of the m8b-slack tool layer: the tool middleware                  *)
(* (ai/services/tool-middleware.js), its caller processFunctionCall        *)
(* (ai/services/function-calls.js) and the MCP registry dispatch           *)
(* (ai/mcp_registry.js).                                                   *)
(*                                                                         *)
(* JavaScript values are tagged records:                                   *)
(*   [t |-> "undef"], [t |-> "null"], [t |-> "bool", b |-> ...],           *)
(*   [t |-> "num", n |-> ...], [t |-> "str", s |-> ..., len |-> ...],      *)
(*   [t |-> "arr", a |-> <<values>>],                                      *)
(*   [t |-> "obj", o |-> <<[k |-> name, v |-> value], ...>>]               *)
(* An object keeps its properties in insertion order, as a JS object does. *)
(***************************************************************************)
EXTENDS Integers, Sequences, FiniteSets, TLC

VARIABLES
  \* ---- generateCacheKey, applied to two argument objects ----
  keyTool, keyArgsA, keyArgsB, keyA, keyB,
  \* ---- paginateOutput, applied to one output ----
  pgOutput, pgOffset, pgLimit, pgResult,
  \* ---- the tool middleware ----
  resultCache,   \* the Map cacheId -> { data, timestamp, toolName }, in insertion order
  now,           \* Date.now()
  nextFileId,    \* files created by openaiClient.files.create so far
  calls,         \* the calls of processFunctionCall, one per caller
  \* ---- the MCP registry ----
  stateServers,  \* state.servers
  stateHosts,    \* state.hosts: the Map alias -> entry, as a function
  sent,          \* the tools/call requests handed to a provider's client
  mcp,           \* the call of executeMcpFunctionCall
  \* ---- streamOnce, one turn ----
  stream,        \* the locals of streamOnce and where it stands
  argEvents,     \* per output index, the function-call events consumed so far
  \* ---- respond, one incoming message ----
  loop,          \* the locals of respond and where it stands
  turnLog,       \* the calls of streamOnce made so far, with their results
  \* ---- compressMcpOutput, applied once and twice ----
  cmOutput, cmOnce, cmTwice,
  \* ---- the result cache on its own ----
  cacheOp,       \* the last call of setCachedResult, and how many were made
  \* ---- one SseRpcClient ----
  client,        \* the fields of the client, and its open event streams
  senders,       \* the asynchronous callers of client.send
  provider,      \* how the MCP server at client.url behaves
  \* ---- one call of pollUntilTerminal ----
  poll,          \* the locals of pollUntilTerminal, the clock, and where it stands
  \* ---- executeStreamWithRetry around one streamOnce ----
  delivery       \* the locals of executeStreamWithRetry, and what Slack was sent

keyVars == <<keyTool, keyArgsA, keyArgsB, keyA, keyB>>
pgVars == <<pgOutput, pgOffset, pgLimit, pgResult>>
mwVars == <<resultCache, now, nextFileId, calls>>
regVars == <<stateServers, stateHosts, sent, mcp>>
toolVars == <<keyVars, pgVars, mwVars, regVars>>
stVars == <<stream, argEvents>>
loopVars == <<loop, turnLog>>
cmVars == <<cmOutput, cmOnce, cmTwice>>
clVars == <<client, senders, provider>>
svcVars == <<poll, delivery>>
auxVars == <<cacheOp, clVars, svcVars>>
chatVars == <<stVars, loopVars, cmVars, auxVars>>

-----------------------------------------------------------------------------
(* JavaScript values *)

Undef == [t |-> "undef"]
Null == [t |-> "null"]
Bool(b) == [t |-> "bool", b |-> b]
Num(n) == [t |-> "num", n |-> n]
Str(s) == [t |-> "str", s |-> s, len |-> Len(s)]
Arr(a) == [t |-> "arr", a |-> a]
Obj(o) == [t |-> "obj", o |-> o]
P(k, v) == [k |-> k, v |-> v]

\* typeof v === "object" && v !== null
IsObjectLike(v) == v.t \in {"arr", "obj"}

\* JavaScript truthiness (ToBoolean)
Truthy(v) ==
  CASE v.t \in {"undef", "null"} -> FALSE
    [] v.t = "bool" -> v.b
    [] v.t = "num" -> v.n # 0
    [] v.t = "str" -> v.len > 0
    [] OTHER -> TRUE

\* Object.keys(obj), in insertion order
ObjectKeys(obj) == [i \in 1..Len(obj.o) |-> obj.o[i].k]

HasKey(obj, k) == obj.t = "obj" /\ \E i \in 1..Len(obj.o) : obj.o[i].k = k

\* obj[k]: undefined when the property is missing (or obj is a primitive)
Get(obj, k) ==
  IF HasKey(obj, k)
  THEN obj.o[CHOOSE i \in 1..Len(obj.o) : obj.o[i].k = k].v
  ELSE Undef

\* obj[k] = v: an existing property keeps its position, a new one is appended
SetKey(obj, k, v) ==
  IF HasKey(obj, k)
  THEN Obj([i \in 1..Len(obj.o) |-> IF obj.o[i].k = k THEN P(k, v) ELSE obj.o[i]])
  ELSE Obj(Append(obj.o, P(k, v)))

\* delete obj[k]
DelKey(obj, k) ==
  LET keep(e) == e.k # k IN Obj(SelectSeq(obj.o, keep))

\* { ...v }: the own enumerable properties of v; none for undefined or null
Spread(v) == IF v.t = "obj" THEN v ELSE Obj(<<>>)

\* number of decimal digits of a non-negative integer below 10^8
NumLen(n) ==
  IF n < 10 THEN 1 ELSE IF n < 100 THEN 2 ELSE IF n < 1000 THEN 3
  ELSE IF n < 10000 THEN 4 ELSE IF n < 100000 THEN 5
  ELSE IF n < 1000000 THEN 6 ELSE IF n < 10000000 THEN 7 ELSE 8

RECURSIVE SumRange(_, _, _)
SumRange(s, a, b) ==
  IF a > b THEN 0
  ELSE IF a = b THEN s[a]
  ELSE SumRange(s, a, (a + b) \div 2) + SumRange(s, (a + b) \div 2 + 1, b)

SumSeq(s) == SumRange(s, 1, Len(s))

\* JSON.stringify(v).length for a defined v: an undefined property is
\* omitted from an object, an undefined array element is written as null
RECURSIVE JsonLen(_)
JsonLen(v) ==
  CASE v.t = "undef" -> 4
    [] v.t = "null" -> 4
    [] v.t = "bool" -> IF v.b THEN 4 ELSE 5
    [] v.t = "num" -> NumLen(v.n)
    [] v.t = "str" -> v.len + 2
    [] v.t = "arr" ->
         2 + SumSeq([i \in 1..Len(v.a) |-> JsonLen(v.a[i])])
           + (IF Len(v.a) > 1 THEN Len(v.a) - 1 ELSE 0)
    [] v.t = "obj" ->
         LET def(e) == e.v.t # "undef"
             es == SelectSeq(v.o, def)
         IN 2 + SumSeq([i \in 1..Len(es) |-> Len(es[i].k) + 3 + JsonLen(es[i].v)])
              + (IF Len(es) > 1 THEN Len(es) - 1 ELSE 0)

-----------------------------------------------------------------------------
(* Cache key derivation: tool-middleware.js generateCacheKey *)

\* The property names of the model in the order Array.prototype.sort()
\* puts them (UTF-16 code units: "_" sorts before the lower-case letters).
SortedKeyNames ==
  <<"_cacheId", "a", "b", "filter", "hosts", "maxResults", "offset", "query">>

\* a variant of SortKeys that leaves the keys in insertion order
SortKeysNoSort(obj) == ObjectKeys(obj)

\* Object.keys(obj).sort()
SortKeys(obj) ==
  LET has(k) == HasKey(obj, k) IN SelectSeq(SortedKeyNames, has)

\* JSON.stringify(v, K) with an array replacer K: at EVERY nesting depth an
\* object is written with the properties named in K, in the order of K.  The
\* string is represented by its parse tree, which determines it.
RECURSIVE JsonStringifyWith(_, _)
JsonStringifyWith(v, K) ==
  CASE v.t = "obj" ->
         LET has(k) == HasKey(v, k) /\ Get(v, k).t # "undef"
             ks == SelectSeq(K, has)
         IN Obj([i \in 1..Len(ks) |-> P(ks[i], JsonStringifyWith(Get(v, ks[i]), K))])
    [] v.t = "arr" ->
         Arr([i \in 1..Len(v.a) |->
                IF v.a[i].t = "undef" THEN Null ELSE JsonStringifyWith(v.a[i], K)])
    [] OTHER -> v

\* a variant of NormalizedArgs that leaves offset in the key
NormalizedArgsKeepOffset(args) == DelKey(DelKey(Spread(args), "maxResults"), "_cacheId")

\* normalizedArgs of generateCacheKey: a copy without the pagination params
NormalizedArgs(args) ==
  DelKey(DelKey(DelKey(Spread(args), "offset"), "maxResults"), "_cacheId")

\* sha256(`${toolName}:${sortedArgs}`).digest("hex").substring(0, 16): a
\* 16 character string that is a function of the hashed text (pre).
Sha256Hex16(toolName, sortedArgs) ==
  [t |-> "str", len |-> 16, pre |-> <<toolName, sortedArgs>>]

generateCacheKey(toolName, args) ==
  LET normalizedArgs == NormalizedArgs(args)
      sortedArgs == JsonStringifyWith(normalizedArgs, SortKeys(normalizedArgs))
  IN Sha256Hex16(toolName, sortedArgs)

-----------------------------------------------------------------------------
(* Pagination: tool-middleware.js findPrimaryData and paginateOutput *)

knownFields ==
  <<"items", "results", "data", "records", "entries", "list", "hosts",
    "metrics", "series", "events", "alerts">>

\* The property names of an array are its indices.
IndexNames == <<"0", "1", "2", "3", "4", "5", "6", "7">>

\* Object.entries(v) for an object or an array
ObjectEntries(v) ==
  IF v.t = "obj" THEN v.o
  ELSE [i \in 1..Len(v.a) |-> P(IndexNames[i], v.a[i])]

NoPrimary == [found |-> FALSE]

\* first index i in 1..n with test(i), or 0
FirstIndex(test(_), i, n) ==
  LET found == {k \in i..n : test(k)}
  IN IF found = {} THEN 0 ELSE CHOOSE k \in found : \A j \in found : k <= j

\* the fallback of findPrimaryData takes arrays longer than this
FallbackMinLength(v) == Len(v.a) > 5

\* what findPrimaryData returns when ki is the first known field that holds
\* a collection (0: none) and bi the first entry that is a large array (0: none)
PrimaryAt(output, ki, es, bi) ==
  IF ki > 0
  THEN [found |-> TRUE, key |-> knownFields[ki],
        data |-> Get(output, knownFields[ki]),
        isObject |-> Get(output, knownFields[ki]).t = "obj"]
  ELSE IF bi > 0
  THEN [found |-> TRUE, key |-> es[bi].k, data |-> es[bi].v, isObject |-> FALSE]
  ELSE NoPrimary

findPrimaryData(output) ==
  IF ~Truthy(output) \/ ~IsObjectLike(output) THEN NoPrimary
  ELSE
    LET isArr(f) == Get(output, f).t = "arr" /\ Len(Get(output, f).a) > 0
        isObj(f) == Get(output, f).t = "obj" /\ Len(Get(output, f).o) > 0
        known(i) == isArr(knownFields[i]) \/ isObj(knownFields[i])
        big(i) == ObjectEntries(output)[i].v.t = "arr"
                    /\ FallbackMinLength(ObjectEntries(output)[i].v)
    IN PrimaryAt(output, FirstIndex(known, 1, Len(knownFields)), ObjectEntries(output),
                 FirstIndex(big, 1, Len(ObjectEntries(output))))

\* Object.keys(data).length or data.length
PrimarySize(primary) ==
  IF primary.isObject THEN Len(primary.data.o) ELSE Len(primary.data.a)

\* Array.prototype.slice(start, end) for 0 <= start, on a sequence
ArraySlice(s, start, end) ==
  LET last == IF end < Len(s) THEN end ELSE Len(s)
  IN IF start >= last THEN <<>> ELSE SubSeq(s, start + 1, last)

\* a variant of PageOf that slices from the start of the collection
PageOfFromZero(s, offset, limit) == ArraySlice(s, 0, offset + limit)

\* data.slice(offset, offset + limit)
PageOf(s, offset, limit) == ArraySlice(s, offset, offset + limit)

\* a variant of hasMore that also holds at the end of the collection
hasMoreInclusive(offset, returned, total) == offset + returned <= total

\* const hasMore = offset + returned < total
hasMore(offset, returned, total) == offset + returned < total

\* `${cacheId}` in the hint of a page
CacheIdText(cacheId) == IF cacheId.t = "str" THEN cacheId.len ELSE JsonLen(cacheId)

\* the _pagination block of paginateOutput
PaginationBlock(key, offset, limit, returned, total, cacheId) ==
  LET more == hasMore(offset, returned, total)
  IN Obj(<<P("offset", Num(offset)), P("limit", Num(limit)),
           P("returned", Num(returned)), P("total", Num(total)),
           P("hasMore", Bool(more)),
           P("nextOffset", IF more THEN Num(offset + returned) ELSE Null),
           P("field", Str(key)),
           P("hint",
             IF more
             THEN [t |-> "str",
                   tpl |-> <<"Showing", returned, "of", total, key,
                             "To get more, call this tool again with _cacheId",
                             cacheId, "and offset", offset + returned>>,
                   len |-> 78 + NumLen(returned) + NumLen(total) + Len(key)
                              + CacheIdText(cacheId) + NumLen(offset + returned)]
             ELSE [t |-> "str", tpl |-> <<"Showing all", total, key>>,
                   len |-> 14 + NumLen(total) + Len(key)])>>)

\* a variant of FitsOnePage that paginates a collection of exactly one page
FitsOnePageStrict(total, limit, offset) == total < limit /\ offset = 0

\* the no-op test of paginateOutput: total <= limit && offset === 0
FitsOnePage(total, limit, offset) == total <= limit /\ offset = 0

\* the paginated copy of output: the page in place of the collection, and
\* the _pagination block
PaginatedCopy(output, key, offset, limit, cacheId, total, paginatedData) ==
  [output |->
     SetKey(SetKey(Spread(IF output.t = "arr" THEN Obj(ObjectEntries(output)) ELSE output),
                   key, paginatedData),
            "_pagination",
            PaginationBlock(key, offset, limit,
                            IF paginatedData.t = "obj"
                            THEN Len(paginatedData.o) ELSE Len(paginatedData.a),
                            total, cacheId)),
   paginated |-> TRUE]

\* paginateOutput once findPrimaryData has returned primary
PaginatePrimary(output, offset, limit, cacheId, primary) ==
  IF ~primary.found THEN [output |-> output, paginated |-> FALSE]
  ELSE IF FitsOnePage(PrimarySize(primary), limit, offset)
  THEN [output |-> output, paginated |-> FALSE]
  ELSE PaginatedCopy(output, primary.key, offset, limit, cacheId, PrimarySize(primary),
                     IF primary.isObject
                     THEN Obj(PageOf(primary.data.o, offset, limit))
                     ELSE Arr(PageOf(primary.data.a, offset, limit)))

paginateOutput(output, offset, limit, cacheId) ==
  PaginatePrimary(output, offset, limit, cacheId, findPrimaryData(output))

-----------------------------------------------------------------------------
(* MCP output compression: tool-middleware.js compressMcpOutput *)

METRIC_FIELDS_TO_REMOVE ==
  {"resetMetricsTime", "name", "updated", "type", "collectTime",
   "previousCollectTime", "previousValue"}

MONITOR_FIELDS_TO_REMOVE == {"discoveryTime", "identifyingAttributeKeys"}

\* a variant of FALSE_FLAGS_TO_REMOVE without the endpoint flag
FALSE_FLAGS_WITHOUT_ENDPOINT == {"connector", "endpointHost", "is_endpoint"}

FALSE_FLAGS_TO_REMOVE == {"connector", "endpoint", "endpointHost", "is_endpoint"}

\* A status text is a string made of segments (field segs); the two markers
\* deduplicateStatusInformation searches for are segments of their own, and
\* a segment " " is white space.  Other strings contain no marker.
MessageMarker == "\n\nMessage:\n====\n"
ConclusionRule == "\n====\n\n"
ConclusionWord == "Conclusion:"

StatusText(segs) == [t |-> "str", segs |-> segs, len |-> 20 * Len(segs)]

IsStatusText(v) == v.t = "str" /\ "segs" \in DOMAIN v

\* the conclusion marker is ConclusionRule followed by ConclusionWord
IndexOfMessage(segs) ==
  LET at(i) == segs[i] = MessageMarker IN FirstIndex(at, 1, Len(segs))
IndexOfConclusion(segs) ==
  LET at(i) == segs[i] = ConclusionRule /\ i < Len(segs) /\ segs[i + 1] = ConclusionWord
  IN FirstIndex(at, 1, Len(segs))

deduplicateStatusInformation(statusInfo) ==
  IF ~Truthy(statusInfo) \/ ~IsStatusText(statusInfo) THEN statusInfo
  ELSE
    LET segs == statusInfo.segs
        messageIdx == IndexOfMessage(segs)
        conclusionIdx == IndexOfConclusion(segs)
    IN IF messageIdx = 0 \/ conclusionIdx = 0 THEN statusInfo
       ELSE StatusText(SubSeq(segs, 1, messageIdx - 1) \o <<"\n\n">>
                         \o SubSeq(segs, conclusionIdx + 1, Len(segs)))

\* s.trim() is not empty
TrimNonEmpty(s) ==
  IF IsStatusText(s)
  THEN \E i \in 1..Len(s.segs) : s.segs[i] \notin {" ", "\n\n"}
  ELSE s.len > 0

compressMetric(metric) ==
  IF ~Truthy(metric) \/ ~IsObjectLike(metric) THEN metric
  ELSE LET keep(e) == e.k \notin METRIC_FIELDS_TO_REMOVE
       IN Obj(SelectSeq(ObjectEntries(metric), keep))

compressMetrics(metrics) ==
  IF ~Truthy(metrics) \/ ~IsObjectLike(metrics) THEN metrics
  ELSE LET es == ObjectEntries(metrics)
       IN Obj([i \in 1..Len(es) |-> P(es[i].k, compressMetric(es[i].v))])

\* the value compressMonitor stores for one property, Undef when it skips it
MonitorProperty(key, value) ==
  IF key \in MONITOR_FIELDS_TO_REMOVE THEN Undef
  ELSE IF key \in FALSE_FLAGS_TO_REMOVE /\ value = Bool(FALSE) THEN Undef
  ELSE IF key = "metrics" /\ Truthy(value) /\ IsObjectLike(value)
  THEN LET compressedMetrics == compressMetrics(value)
       IN IF Len(compressedMetrics.o) > 0 THEN compressedMetrics ELSE Undef
  ELSE IF key = "legacyTextParameters" /\ Truthy(Get(value, "StatusInformation"))
  THEN LET deduped == deduplicateStatusInformation(Get(value, "StatusInformation"))
       IN IF Truthy(deduped) /\ TrimNonEmpty(deduped)
          THEN SetKey(Spread(value), "StatusInformation", deduped)
          ELSE Undef
  ELSE value

compressMonitor(monitor) ==
  IF ~Truthy(monitor) \/ ~IsObjectLike(monitor) THEN monitor
  ELSE LET es == ObjectEntries(monitor)
           skipped(e) ==
             \/ e.k \in MONITOR_FIELDS_TO_REMOVE
             \/ e.k \in FALSE_FLAGS_TO_REMOVE /\ e.v = Bool(FALSE)
             \/ /\ e.k = "metrics" /\ Truthy(e.v) /\ IsObjectLike(e.v)
                /\ MonitorProperty(e.k, e.v) = Undef
             \/ /\ e.k = "legacyTextParameters"
                /\ Truthy(Get(e.v, "StatusInformation"))
                /\ MonitorProperty(e.k, e.v) = Undef
           kept(e) == ~skipped(e)
           ks == SelectSeq(es, kept)
       IN Obj([i \in 1..Len(ks) |-> P(ks[i].k, MonitorProperty(ks[i].k, ks[i].v))])

RECURSIVE compressMcpTelemetry(_)
compressMcpTelemetry(data) ==
  IF ~IsObjectLike(data) THEN data
  ELSE IF data.t = "arr"
  THEN Arr([i \in 1..Len(data.a) |-> compressMcpTelemetry(data.a[i])])
  ELSE Obj([i \in 1..Len(data.o) |->
         LET key == data.o[i].k
             value == data.o[i].v
         IN IF key = "monitors" /\ value.t = "arr"
            THEN P(key, Arr([j \in 1..Len(value.a) |-> compressMonitor(value.a[j])]))
            ELSE IF IsObjectLike(value)
            THEN P(key, compressMcpTelemetry(value))
            ELSE P(key, value)])

RECURSIVE removeEmptyObjects(_)
removeEmptyObjects(obj) ==
  IF ~IsObjectLike(obj) THEN obj
  ELSE IF obj.t = "arr"
  THEN LET mapped == [i \in 1..Len(obj.a) |-> removeEmptyObjects(obj.a[i])]
           def(x) == x # Undef
           cleaned == SelectSeq(mapped, def)
       IN IF Len(cleaned) > 0 THEN Arr(cleaned) ELSE Undef
  ELSE LET mapped == [i \in 1..Len(obj.o) |-> P(obj.o[i].k, removeEmptyObjects(obj.o[i].v))]
           def(e) == e.v # Undef
           cleaned == SelectSeq(mapped, def)
       IN IF Len(cleaned) > 0 THEN Obj(cleaned) ELSE Undef

compressMcpOutput(output) ==
  IF ~Truthy(output) \/ ~IsObjectLike(output) THEN output
  ELSE LET compressed == removeEmptyObjects(compressMcpTelemetry(output))
       IN IF Truthy(compressed) THEN compressed ELSE Obj(<<>>)

-----------------------------------------------------------------------------
(* The result cache: tool-middleware.js *)

DEFAULT_MAX_RESULTS == 100
HARD_MAX_OUTPUT_CHARS == 1000000
RESULT_CACHE_TTL_MS == 300000
MAX_CACHE_ENTRIES == 100

\* position of cacheId in the Map, or 0
CacheIndex(cache, cacheId) ==
  LET at(i) == cache[i].id = cacheId IN FirstIndex(at, 1, Len(cache))

\* a variant of IsExpired with twice the time-to-live
IsExpiredLate(entry, t) == t - entry.timestamp > 2 * RESULT_CACHE_TTL_MS

\* an entry older than this is expired
IsExpired(entry, t) == t - entry.timestamp > RESULT_CACHE_TTL_MS

\* returns the data (Null on a miss), the Map, less an expired entry, and
\* the line it logs
getCachedResult(cache, cacheId, t) ==
  LET i == CacheIndex(cache, cacheId)
  IN IF i = 0 THEN [data |-> Null, cache |-> cache, log |-> "none"]
     ELSE IF IsExpired(cache[i], t)
     THEN [data |-> Null,
           cache |-> SubSeq(cache, 1, i - 1) \o SubSeq(cache, i + 1, Len(cache)),
           log |-> "Expired"]
     ELSE [data |-> cache[i].data, cache |-> cache, log |-> "Hit"]

\* resultCache.clear()
clearCache(cache) == <<>>

\* entries.sort((a, b) => a[1].timestamp - b[1].timestamp): a stable sort
\* the entries with the timestamps in T, by timestamp, entries of one
\* timestamp in the order they have
RECURSIVE ByTimestamps(_, _)
ByTimestamps(entries, T) ==
  IF T = {} THEN <<>>
  ELSE LET least == CHOOSE t \in T : \A u \in T : t <= u
           at(e) == e.timestamp = least
       IN SelectSeq(entries, at) \o ByTimestamps(entries, T \ {least})

SortByTimestamp(entries) ==
  ByTimestamps(entries, {entries[i].timestamp : i \in 1..Len(entries)})

\* a variant of EntriesToRemove that takes the entries in the Map's order
EntriesToRemoveInMapOrder(entries) == SubSeq(entries, 1, MAX_CACHE_ENTRIES \div 2)

\* entries.sort(by timestamp).slice(0, Math.floor(MAX_CACHE_ENTRIES / 2))
EntriesToRemove(entries) ==
  SubSeq(SortByTimestamp(entries), 1, MAX_CACHE_ENTRIES \div 2)

cleanupCache(cache, t) ==
  LET live(e) == ~IsExpired(e, t)
      unexpired == SelectSeq(cache, live)
  IN IF Len(unexpired) >= MAX_CACHE_ENTRIES
     THEN LET toRemove == EntriesToRemove(unexpired)
              stays(e) == \A i \in 1..Len(toRemove) : toRemove[i].id # e.id
          IN SelectSeq(unexpired, stays)
     ELSE unexpired

\* Map.set: an existing key keeps its place
MapSet(c, cacheId, entry, i) ==
  IF i = 0 THEN Append(c, entry) ELSE [c EXCEPT ![i] = entry]

SetAfterCleanup(c, cacheId, toolName, data, t) ==
  MapSet(c, cacheId,
         [id |-> cacheId, data |-> data, timestamp |-> t, toolName |-> toolName],
         CacheIndex(c, cacheId))

\* a variant of the fullness test that lets one more entry in
CacheOverFull(cache) == Len(cache) > MAX_CACHE_ENTRIES

\* resultCache.size >= MAX_CACHE_ENTRIES
CacheFull(cache) == Len(cache) >= MAX_CACHE_ENTRIES

setCachedResult(cache, cacheId, toolName, data, t) ==
  SetAfterCleanup(IF CacheFull(cache) THEN cleanupCache(cache, t) ELSE cache,
                  cacheId, toolName, data, t)

-----------------------------------------------------------------------------
(* executeWithMiddleware and processFunctionCall *)

\* a thrown exception, in place of a returned value
Thrown(e) == [t |-> "thrown", e |-> e]
IsThrown(v) == v.t = "thrown"

TypeErrorLength == Str("TypeError: Cannot read properties of undefined (reading 'length')")
TypeErrorFile == Str("TypeError: Cannot create property '_file'")

SmallerMaxResultsHint ==
  Str("Use smaller maxResults (e.g., 10-50) or more specific query parameters.")

\* hint of the size error when the output carries a file reference
FileHint(fileRef) ==
  [t |-> "str", tpl |-> <<"Full data uploaded as", Get(fileRef, "fileName"), "Use code_interpreter">>,
   len |-> 81 + Get(fileRef, "fileName").len]

\* the hint ensureSafeSize gives
EnsureSafeSizeHint(fileRef) ==
  IF Truthy(fileRef) THEN FileHint(fileRef) ELSE SmallerMaxResultsHint

\* a variant of ErrorFileRef that drops the file reference
ErrorFileRefDropped(output) == Undef

\* the _file property of the size error
ErrorFileRef(output) == Get(output, "_file")

\* a variant of WithinHardLimit that lets every output through
WithinHardLimitAlways(n) == TRUE

\* outputStr.length <= HARD_MAX_OUTPUT_CHARS
WithinHardLimit(n) == n <= HARD_MAX_OUTPUT_CHARS

\* the error ensureSafeSize returns for an output of n characters
SizeError(n, fileRef) ==
  Obj(<<P("ok", Bool(FALSE)),
        P("error", [t |-> "str", tpl |-> <<"Output too large for inline", n>>,
                    len |-> 36 + NumLen(n)]),
        P("_file", fileRef),
        P("hint", EnsureSafeSizeHint(fileRef))>>)

SizeChecked(output, n) ==
  IF WithinHardLimit(n) THEN output ELSE SizeError(n, ErrorFileRef(output))

ensureSafeSize(output) ==
  IF output.t = "undef" THEN Thrown(TypeErrorLength)
  ELSE SizeChecked(output, JsonLen(output))

MaxResultsOf(args) ==
  LET m == Get(args, "maxResults")
  IN IF m.t = "num" /\ m.n > 0 THEN m.n ELSE DEFAULT_MAX_RESULTS

OffsetOf(args) ==
  LET o == Get(args, "offset") IN IF o.t = "num" /\ o.n >= 0 THEN o.n ELSE 0

\* args?._cacheId || generateCacheKey(name, args)
CacheIdOf(name, args) ==
  IF Truthy(Get(args, "_cacheId")) THEN Get(args, "_cacheId")
  ELSE generateCacheKey(name, args)

\* the _file property of an output served from the cache
CachedFileRef(fileId, fileName) ==
  Obj(<<P("fileId", fileId), P("fileName", fileName),
        P("hint", [t |-> "str", tpl |-> <<"Full data available in file", fileName>>,
                   len |-> 64 + fileName.len])>>)

\* the _file property of the output of a fresh execution
FreshFileRef(fileId, fileName, result) ==
  Obj(<<P("fileId", fileId), P("fileName", fileName),
        P("hint", [t |-> "str",
                   tpl |-> <<"Full data", JsonLen(result), "chars uploaded as", fileName>>,
                   len |-> 76 + NumLen(JsonLen(result)) + fileName.len])>>)

\* what uploadOutputAsFile returns on success: the file id and name
UploadedFile(toolName, n, t) ==
  [fileId |-> [t |-> "str", tpl |-> <<"file-", n>>, len |-> 5 + NumLen(n)],
   fileName |-> [t |-> "str", tpl |-> <<toolName, t, ".json">>,
                 len |-> Len(toolName) + NumLen(t) + 6]]

NoUpload == [fileId |-> Undef, fileName |-> Undef]

\* The cache-hit branch: the value returned and the cached result afterwards.
\* When paginateOutput returns its argument itself, the _file assignment is an
\* assignment to the cached object.
ServeOut(cachedData, paginated, out) ==
  [ret |-> ensureSafeSize(out),
   result |-> IF paginated THEN cachedData.result ELSE out]

ServePage(cachedData, pg) ==
  ServeOut(cachedData, pg.paginated,
           IF Truthy(cachedData.fileId)
           THEN SetKey(pg.output, "_file", CachedFileRef(cachedData.fileId, cachedData.fileName))
           ELSE pg.output)

ServeFromCache(cachedData, offset, maxResults, cacheId) ==
  ServePage(cachedData, paginateOutput(cachedData.result, offset, maxResults, cacheId))

\* a variant of ShouldCache that looks at the page size only
ShouldCacheAbovePageSize(dataSize, maxResults) == dataSize > maxResults

\* the caching test of executeWithMiddleware
ShouldCache(dataSize, maxResults) ==
  dataSize > maxResults \/ dataSize > DEFAULT_MAX_RESULTS

\* if (paginated && paginatedOutput._pagination) paginatedOutput._cacheId = cacheId
AttachCacheId(pg, cacheId) ==
  IF pg.paginated /\ Truthy(Get(pg.output, "_pagination"))
  THEN SetKey(pg.output, "_cacheId", cacheId)
  ELSE pg.output

\* const dataSize = primary ? ... : 0
DataSize(primary) == IF primary.found THEN PrimarySize(primary) ELSE 0

\* The rest of a cache miss once the upload has settled (uploaded is NoUpload
\* when there was none): the value returned, or the exception, and the Map.
\* The Map is set before the output is built; when paginateOutput returned
\* the result itself, the _file assignment is an assignment to the stored object.
FinishOut(cache, name, result, uploaded, cacheId, t, cached, paginated, fileFails, out) ==
  [ret |-> IF fileFails THEN Thrown(TypeErrorFile) ELSE ensureSafeSize(out),
   cache |-> IF cached
             THEN setCachedResult(cache, cacheId, name,
                    [result |-> IF paginated THEN result ELSE out,
                     fileId |-> uploaded.fileId, fileName |-> uploaded.fileName], t)
             ELSE cache,
   cached |-> cached]

FinishWithId(cache, name, result, uploaded, cacheId, t, cached, paginated, withId) ==
  FinishOut(cache, name, result, uploaded, cacheId, t, cached, paginated,
            uploaded # NoUpload /\ withId.t # "obj",
            IF uploaded # NoUpload /\ withId.t = "obj"
            THEN SetKey(withId, "_file",
                        FreshFileRef(uploaded.fileId, uploaded.fileName, result))
            ELSE withId)

FinishPaged(cache, name, result, uploaded, cacheId, t, cached, pg) ==
  FinishWithId(cache, name, result, uploaded, cacheId, t, cached, pg.paginated,
               AttachCacheId(pg, cacheId))

FinishMiss(cache, name, result, uploaded, offset, maxResults, cacheId, t) ==
  FinishPaged(cache, name, result, uploaded, cacheId, t,
              ShouldCache(DataSize(findPrimaryData(result)), maxResults),
              paginateOutput(result, offset, maxResults, cacheId))

\* String(e) for a thrown Error object: its name, ": ", its message
StringOf(e) ==
  IF e.t = "error"
  THEN [t |-> "str", s |-> e.name \o ": " \o e.message.s,
        len |-> Len(e.name) + 2 + e.message.len]
  ELSE e

\* the catch of executeWithMiddleware around the executor
ExecutorFailure(e) == Obj(<<P("ok", Bool(FALSE)), P("error", e)>>)

\* processFunctionCall: its catch around the handler, and the final size
\* check; the value is the output that is serialized into the output item
FinalOutput(output) ==
  IF output.t = "undef" THEN Thrown(TypeErrorLength)
  ELSE IF JsonLen(output) > HARD_MAX_OUTPUT_CHARS
  THEN Obj(<<P("ok", Bool(FALSE)),
             P("error", Str("Output exceeded maximum size limit")),
             P("hint", Str("Use smaller maxResults or more specific query parameters."))>>)
  ELSE output

\* a variant of ProcessOutput without the catch: an exception of the handler
\* leaves processFunctionCall
ProcessOutputNoCatch(mw) == mw

ProcessOutput(mw) ==
  FinalOutput(IF IsThrown(mw) THEN ExecutorFailure(mw.e) ELSE mw)

-----------------------------------------------------------------------------
(* Bounds of the inputs *)

MaxArgs == 3      \* properties of an argument object
MaxLen == 6       \* elements of a primary collection
MaxLimit == 4     \* page size
MaxOffset == 8    \* offset

Tools == {"CollectMetrics", "PromQLQuery"}

-----------------------------------------------------------------------------
(* generateCacheKey applied to two argument objects *)

\* the properties an argument object of the model is built from
ArgEntries ==
  { P("hosts", Arr(<<Str("h1"), Str("h2")>>)),
    P("filter", Obj(<<P("a", Num(1)), P("b", Num(2))>>)),
    P("filter", Obj(<<P("b", Num(2)), P("a", Num(1))>>)),
    P("a", Num(1)),
    P("offset", Num(2)), P("maxResults", Num(2)),
    P("_cacheId", Str("0123456789abcdef")) }

\* objects of n properties with distinct names, in every insertion order
ArgObjectsOfSize(n) ==
  { Obj(s) : s \in { f \in [1..n -> ArgEntries] :
                       \A i, j \in 1..n : i # j => f[i].k # f[j].k } }

\* argument objects whose nested object has another content
NestedArgs ==
  { Obj(<<P("filter", Obj(<<P("a", Num(3)), P("b", Num(2))>>))>>),
    Obj(<<P("filter", Obj(<<P("a", Num(1))>>)), P("offset", Num(2))>>),
    Obj(<<P("a", Num(1)), P("filter", Obj(<<P("a", Num(3)), P("b", Num(2))>>))>>) }

ArgObjects == UNION { ArgObjectsOfSize(n) : n \in 0..MaxArgs } \cup {Undef} \cup NestedArgs

\* the same content, whatever the insertion order of the properties
RECURSIVE SameContent(_, _)
SameContent(x, y) ==
  CASE x.t = "obj" /\ y.t = "obj" ->
         /\ Len(x.o) = Len(y.o)
         /\ \A i \in 1..Len(x.o) :
              HasKey(y, x.o[i].k) /\ SameContent(x.o[i].v, Get(y, x.o[i].k))
    [] x.t = "arr" /\ y.t = "arr" ->
         /\ Len(x.a) = Len(y.a)
         /\ \A i \in 1..Len(x.a) : SameContent(x.a[i], y.a[i])
    [] OTHER -> x = y

PaginationParams == {"offset", "maxResults", "_cacheId"}

\* the arguments without the pagination parameters
Content(args) ==
  LET keep(e) == e.k \notin PaginationParams IN Obj(SelectSeq(Spread(args).o, keep))

\* two argument sets for the same logical request
Equivalent(x, y) == SameContent(Content(x), Content(y))

\* same non-pagination property names (the values may differ)
SameNames(x, y) ==
  {Content(x).o[i].k : i \in 1..Len(Content(x).o)}
    = {Content(y).o[i].k : i \in 1..Len(Content(y).o)}

KeyInit ==
  /\ keyTool \in Tools
  /\ keyArgsA \in ArgObjects
  /\ keyArgsB \in {y \in ArgObjects : SameNames(keyArgsA, y)}
  /\ keyA = Undef
  /\ keyB = Undef

KeyIdle ==
  /\ keyTool = "CollectMetrics" /\ keyArgsA = Undef /\ keyArgsB = Undef
  /\ keyA = Undef /\ keyB = Undef

DeriveKeyA ==
  /\ keyA = Undef
  /\ keyA' = generateCacheKey(keyTool, keyArgsA)
  /\ UNCHANGED <<keyTool, keyArgsA, keyArgsB, keyB, pgVars, mwVars, regVars, chatVars>>

DeriveKeyB ==
  /\ keyB = Undef
  /\ keyB' = generateCacheKey(keyTool, keyArgsB)
  /\ UNCHANGED <<keyTool, keyArgsA, keyArgsB, keyA, pgVars, mwVars, regVars, chatVars>>

-----------------------------------------------------------------------------
(* paginateOutput applied to one output *)

ItemNames == <<"k1", "k2", "k3", "k4", "k5", "k6", "k7", "k8", "k9">>

\* an array of n distinct elements, a keyed map of n distinct properties
ArrayOfLen(n) == Arr([i \in 1..n |-> Num(i)])
MapOfLen(n) == Obj([i \in 1..n |-> P(ItemNames[i], Num(i))])

\* tool outputs with one collection of n elements
OutputsOfLen(n) ==
  { Obj(<<P("ok", Bool(TRUE)), P("items", ArrayOfLen(n))>>),
    Obj(<<P("ok", Bool(TRUE)), P("metrics", MapOfLen(n))>>),
    Obj(<<P("stuff", ArrayOfLen(n)), P("ok", Bool(TRUE))>>) }

PgInit ==
  /\ pgOutput \in UNION { OutputsOfLen(n) : n \in 0..MaxLen }
  /\ pgOffset \in 0..MaxOffset
  /\ pgLimit \in 1..MaxLimit
  /\ pgResult = Undef

PgIdle ==
  /\ pgOutput = Undef /\ pgOffset = 0 /\ pgLimit = 1 /\ pgResult = Undef

\* the page of the inline response: paginateOutput, then the _cacheId of a
\* paginated output
InlinePage(pg, cacheId) ==
  [output |-> pg.output, paginated |-> pg.paginated, inline |-> AttachCacheId(pg, cacheId)]

Paginate ==
  /\ pgResult = Undef
  /\ pgResult' = InlinePage(paginateOutput(pgOutput, pgOffset, pgLimit,
                                           generateCacheKey("CollectMetrics", Undef)),
                            generateCacheKey("CollectMetrics", Undef))
  /\ UNCHANGED <<pgOutput, pgOffset, pgLimit, keyVars, mwVars, regVars, chatVars>>

-----------------------------------------------------------------------------
(* The middleware under concurrent callers *)

MaxTicks == 2     \* advances of the clock

\* one message being handled; its tool calls go through processFunctionCall
Callers == {"m1", "m2"}

\* the clock advances by the time-to-live: an entry is live one step after
\* it was stored and expired two steps after
ClockStep == RESULT_CACHE_TTL_MS

\* the tools the callers call
MwTools == {"CollectMetrics"}

BaseArgs == Obj(<<P("hosts", Arr(<<Str("h1"), Str("h2")>>))>>)

WithOptional(obj, k, choice) == IF choice = Undef THEN obj ELSE SetKey(obj, k, choice)

\* a page size above the default
LargePage == 2 * DEFAULT_MAX_RESULTS

\* the argument objects of the calls: one logical request, with and without
\* the pagination parameters
MwArgs ==
  { WithOptional(WithOptional(WithOptional(BaseArgs, "offset", o), "maxResults", m),
                 "_cacheId", c) :
      o \in {Undef, Num(2)}, m \in {Undef, Num(2)},
      c \in {Undef, generateCacheKey("CollectMetrics", BaseArgs)} }
    \cup {SetKey(BaseArgs, "maxResults", Num(LargePage))}

Blob == [t |-> "str", s |-> "blob", len |-> 400000]

\* what an executor may do: return a value or throw
ExecutorOutcomes ==
  { [kind |-> "return", value |-> Obj(<<P("ok", Bool(TRUE)), P("hosts", ArrayOfLen(3))>>)],
    [kind |-> "return", value |-> Obj(<<P("ok", Bool(TRUE)), P("data", Arr(<<Blob, Blob, Blob>>))>>)],
    [kind |-> "return", value |-> Obj(<<P("ok", Bool(TRUE)), P("value", Num(5))>>)],
    [kind |-> "return", value |-> Str("plain text")],
    [kind |-> "return", value |-> Undef],
    [kind |-> "throw",
     e |-> [t |-> "error", name |-> "Error", message |-> Str("connection refused")]],
    [kind |-> "throw",
     e |-> [t |-> "error", name |-> "Error",
            message |-> [t |-> "str", s |-> "long", len |-> 1200000]]] }

\* a collection larger than the default page, which the executor returns to
\* the calls that ask for a large page
LargeOutcome ==
  [kind |-> "return",
   value |-> Obj(<<P("ok", Bool(TRUE)), P("hosts", ArrayOfLen(DEFAULT_MAX_RESULTS + 1))>>)]

ExecutorOutcomesFor(call) ==
  ExecutorOutcomes \cup (IF call.maxResults > DEFAULT_MAX_RESULTS THEN {LargeOutcome} ELSE {})

IdleCall == [pc |-> "idle"]

Done(c) == calls[c].pc = "done"

\* the entry caller d stored is in the cache and has not expired
StoredEntryLive(d) ==
  /\ Done(d) /\ calls[d].cached
  /\ LET i == CacheIndex(resultCache, calls[d].cacheId)
     IN i # 0 /\ ~IsExpired(resultCache[i], now)

MwInit ==
  /\ resultCache = <<>>
  /\ now = 0
  /\ nextFileId = 0
  /\ calls = [c \in Callers |-> IdleCall]

MwIdle == MwInit

\* the call as it is once the cache has been looked up
StartedCall(name, args, cacheId) ==
  [pc |-> "executor", name |-> name, args |-> args,
   maxResults |-> MaxResultsOf(args), offset |-> OffsetOf(args), cacheId |-> cacheId,
   prior |-> {d \in Callers : Done(d)},
   liveFrom |-> {d \in Callers : StoredEntryLive(d)}]

BeginHit(c, call, cache, data, served) ==
  /\ resultCache' =
       [cache EXCEPT ![CacheIndex(cache, call.cacheId)].data.result = served.result]
  /\ calls' = [calls EXCEPT ![c] =
       [call EXCEPT !.pc = "done"] @@
       [hit |-> TRUE, executed |-> FALSE, cleanArgs |-> Undef,
        execError |-> Undef, result |-> data.result,
        uploaded |-> NoUpload, cached |-> FALSE,
        cachedFile |-> [fileId |-> data.fileId, fileName |-> data.fileName],
        entryTool |-> cache[CacheIndex(cache, call.cacheId)].toolName,
        mw |-> served.ret, out |-> ProcessOutput(served.ret)]]

\* a variant of CleanArgs that hands the page size on to the executor
CleanArgsKeepPageSize(args) == DelKey(DelKey(Spread(args), "offset"), "_cacheId")

\* const cleanArgs = { ...args }, then the three deletes
CleanArgs(args) ==
  DelKey(DelKey(DelKey(Spread(args), "offset"), "maxResults"), "_cacheId")

\* no cached data: executor(name, cleanArgs) is called
BeginMiss(c, call, cache) ==
  /\ resultCache' = cache
  /\ calls' = [calls EXCEPT ![c] =
       call @@ [hit |-> FALSE, executed |-> TRUE,
                cleanArgs |-> CleanArgs(call.args)]]

BeginLooked(c, started, looked) ==
  LET call == started @@ [lookup |-> looked.log]
  IN IF looked.data # Null
     THEN BeginHit(c, call, looked.cache, looked.data,
                   ServeFromCache(looked.data, call.offset, call.maxResults, call.cacheId))
     ELSE BeginMiss(c, call, looked.cache)

\* processFunctionCall up to the first await of executeWithMiddleware: the
\* cache lookup, and on a hit the whole call
Begin(c) ==
  /\ calls[c].pc = "idle"
  /\ \E name \in MwTools, args \in MwArgs :
       BeginLooked(c, StartedCall(name, args, CacheIdOf(name, args)),
                   getCachedResult(resultCache, CacheIdOf(name, args), now))
  /\ UNCHANGED <<now, nextFileId, keyVars, pgVars, regVars, chatVars>>

\* calls of two tools: one request that is cached, and requests of another
\* tool that name the cache id of the first
CrossToolCalls ==
  { <<"CollectMetrics", SetKey(BaseArgs, "maxResults", Num(2))>>,
    <<"PromQLQuery", Obj(<<>>)>>,
    <<"PromQLQuery", Obj(<<P("_cacheId", generateCacheKey("CollectMetrics", BaseArgs))>>)>>,
    <<"PromQLQuery", Obj(<<P("offset", Num(2)),
                         P("_cacheId", generateCacheKey("CollectMetrics", BaseArgs))>>)>> }

\* Begin for the calls of CrossToolCalls
BeginAcross(c) ==
  /\ calls[c].pc = "idle"
  /\ \E call \in CrossToolCalls :
       BeginLooked(c, StartedCall(call[1], call[2], CacheIdOf(call[1], call[2])),
                   getCachedResult(resultCache, CacheIdOf(call[1], call[2]), now))
  /\ UNCHANGED <<now, nextFileId, keyVars, pgVars, regVars, chatVars>>

\* the arguments of the calls that walk through one result, page by page
WalkArgs(offset) ==
  IF offset = 0 THEN SetKey(BaseArgs, "maxResults", Num(pgLimit))
  ELSE SetKey(SetKey(BaseArgs, "maxResults", Num(pgLimit)), "offset", Num(offset))

\* the elements of the primary collection of an output
PrimaryElements(output) ==
  LET primary == findPrimaryData(output)
  IN IF ~primary.found THEN <<>>
     ELSE IF primary.isObject THEN primary.data.o ELSE primary.data.a

\* the elements a returned output shows: those of the field its _pagination
\* block names, or of its primary collection when it has no such block
PageElements(ret) ==
  IF ret.t = "obj" /\ Get(ret, "_pagination").t = "obj"
  THEN LET page == Get(ret, Get(Get(ret, "_pagination"), "field").s)
       IN IF page.t = "obj" THEN page.o ELSE page.a
  ELSE PrimaryElements(ret)

\* what the caller has after a call that returned ret: the pages so far
Walked(ret, visited, fetched) ==
  [t |-> "walk", ret |-> ret, visited |-> visited \o PageElements(ret),
   fetched |-> fetched + 1]

\* the returned output asks for another call
AsksForMore(ret) ==
  /\ ret.t = "obj"
  /\ Get(ret, "_pagination").t = "obj"
  /\ Get(Get(ret, "_pagination"), "hasMore") = Bool(TRUE)

\* no page asked yet
WalkInit ==
  /\ pgOutput \in UNION { OutputsOfLen(n) : n \in 0..MaxLen }
  /\ pgOffset = 0
  /\ pgLimit \in 1..MaxLimit
  /\ pgResult = Undef

\* the first call, at offset 0: a miss, the executor returns pgOutput, the
\* upload settles with a file or without
WalkFirst ==
  /\ pgResult = Undef
  /\ \E ok \in BOOLEAN :
       LET name == "CollectMetrics"
           args == WalkArgs(0)
           fin == FinishMiss(resultCache, name, compressMcpOutput(pgOutput),
                             IF ok THEN UploadedFile(name, nextFileId + 1, now) ELSE NoUpload,
                             OffsetOf(args), MaxResultsOf(args), CacheIdOf(name, args), now)
       IN /\ resultCache' = fin.cache
          /\ nextFileId' = IF ok THEN nextFileId + 1 ELSE nextFileId
          /\ pgResult' = Walked(fin.ret, <<>>, 0)
  /\ UNCHANGED <<pgOutput, pgOffset, pgLimit, now, calls, keyVars, regVars, chatVars>>

\* the next call, with the offset the last page gave: a hit while the entry
\* is in the cache
WalkNext ==
  /\ pgResult # Undef
  /\ AsksForMore(pgResult.ret)
  /\ LET name == "CollectMetrics"
         args == WalkArgs(Get(Get(pgResult.ret, "_pagination"), "nextOffset").n)
         cacheId == CacheIdOf(name, args)
         looked == getCachedResult(resultCache, cacheId, now)
         served == ServeFromCache(looked.data, OffsetOf(args), MaxResultsOf(args), cacheId)
     IN /\ looked.data # Null
        /\ resultCache' = [looked.cache EXCEPT
                             ![CacheIndex(looked.cache, cacheId)].data.result = served.result]
        /\ pgOffset' = OffsetOf(args)
        /\ pgResult' = Walked(served.ret, pgResult.visited, pgResult.fetched)
  /\ UNCHANGED <<pgOutput, pgLimit, now, nextFileId, calls, keyVars, regVars, chatVars>>

\* the record of a finished call
Finished(call, execError, result, uploaded, cached, mw) ==
  [pc |-> "done", name |-> call.name, args |-> call.args,
   maxResults |-> call.maxResults, offset |-> call.offset, cacheId |-> call.cacheId,
   prior |-> call.prior, liveFrom |-> call.liveFrom, lookup |-> call.lookup,
   hit |-> FALSE, executed |-> TRUE,
   cleanArgs |-> call.cleanArgs, execError |-> execError, result |-> result,
   uploaded |-> uploaded, cached |-> cached, cachedFile |-> NoUpload,
   mw |-> mw, out |-> ProcessOutput(mw)]

\* the end of a call that missed the cache
Settled(c, call, result, uploaded, fin) ==
  /\ calls' = [calls EXCEPT ![c] =
       Finished(call, Undef, result, uploaded, fin.cached, fin.ret)]
  /\ resultCache' = fin.cache

\* the executor throws or rejects: the catch of executeWithMiddleware
ExecutorThrows(c) ==
  /\ calls[c].pc = "executor"
  /\ \E x \in {y \in ExecutorOutcomes : y.kind = "throw"} :
       calls' = [calls EXCEPT ![c] =
         Finished(calls[c], x.e, Undef, NoUpload, FALSE, ExecutorFailure(StringOf(x.e)))]
  /\ UNCHANGED <<resultCache, now, nextFileId, keyVars, pgVars, regVars, chatVars>>

\* options.openaiClient && options.fileTracking: processFunctionCall passes both
HasUploadClient == TRUE

\* the call after the executor returned result
Returned(c, call, result) ==
  IF HasUploadClient
  THEN IF result.t = "undef"
       THEN /\ calls' = [calls EXCEPT ![c] =
                 Finished(call, Undef, result, NoUpload, FALSE, Thrown(TypeErrorLength))]
            /\ UNCHANGED resultCache
       ELSE /\ calls' = [calls EXCEPT ![c] =
                 [call EXCEPT !.pc = "upload"] @@ [result |-> result]]
            /\ UNCHANGED resultCache
  ELSE Settled(c, call, result, NoUpload,
               FinishMiss(resultCache, call.name, result, NoUpload,
                          call.offset, call.maxResults, call.cacheId, now))

\* the executor returns: compression, then the upload is started
ExecutorReturns(c) ==
  /\ calls[c].pc = "executor"
  /\ \E x \in {y \in ExecutorOutcomesFor(calls[c]) : y.kind = "return"} :
       Returned(c, calls[c], compressMcpOutput(x.value))
  /\ UNCHANGED <<now, nextFileId, keyVars, pgVars, regVars, chatVars>>

\* uploadOutputAsFile settles, with a file or with null; the rest of the call
UploadSettles(c) ==
  /\ calls[c].pc = "upload"
  /\ \E ok \in BOOLEAN :
       /\ Settled(c, calls[c], calls[c].result,
                  IF ok THEN UploadedFile(calls[c].name, nextFileId + 1, now) ELSE NoUpload,
                  FinishMiss(resultCache, calls[c].name, calls[c].result,
                             IF ok THEN UploadedFile(calls[c].name, nextFileId + 1, now)
                             ELSE NoUpload,
                             calls[c].offset, calls[c].maxResults, calls[c].cacheId, now))
       /\ nextFileId' = IF ok THEN nextFileId + 1 ELSE nextFileId
  /\ UNCHANGED <<now, keyVars, pgVars, regVars, chatVars>>

\* the exported clearCache is called
ClearCache ==
  /\ resultCache # <<>>
  /\ resultCache' = clearCache(resultCache)
  /\ UNCHANGED <<now, nextFileId, calls, keyVars, pgVars, regVars, chatVars>>

Tick ==
  /\ now < MaxTicks * ClockStep
  /\ now' = now + ClockStep
  /\ UNCHANGED <<resultCache, nextFileId, calls, keyVars, pgVars, regVars, chatVars>>

-----------------------------------------------------------------------------
(* The MCP registry: mcp_registry.js *)

MaxHosts == 3

ServerConfigs ==
  <<[server_label |-> "s1", server_url |-> "u1", token |-> "t1"],
    [server_label |-> "s2", server_url |-> "u2", token |-> "t2"]>>

\* what ListHosts answers: host keys with their attributes["host.name"]
\* ("" when there is none); <<>> also stands for a failed discovery
Listings ==
  [s1 |-> { <<>>,
            <<[key |-> "h1", hostName |-> ""]>>,
            <<[key |-> "h1", hostName |-> ""], [key |-> "h2", hostName |-> "n2"]>> },
   s2 |-> { <<>>,
            <<[key |-> "h3", hostName |-> ""]>>,
            <<[key |-> "h2", hostName |-> ""], [key |-> "h3", hostName |-> ""]>> }]

HostNames == {"h1", "h2", "n2", "h3", "zz"}

\* Map.prototype.set
MapPut(map, k, v) == [x \in DOMAIN map \cup {k} |-> IF x = k THEN v ELSE map[x]]

\* one turn of the loop of _indexHostsFromList
IndexHost(map, server, h) ==
  IF h.hostName # ""
  THEN MapPut(MapPut(map, h.key, [key |-> h.key, server_label |-> server.server_label,
                                  server_url |-> server.server_url, hostName |-> h.hostName]),
              h.hostName, [key |-> h.key, server_label |-> server.server_label,
                           server_url |-> server.server_url, hostName |-> h.hostName])
  ELSE MapPut(map, h.key, [key |-> h.key, server_label |-> server.server_label,
                           server_url |-> server.server_url, hostName |-> h.hostName])

RECURSIVE indexHostsFromList(_, _, _)
indexHostsFromList(map, server, listing) ==
  IF listing = <<>> THEN map
  ELSE indexHostsFromList(IndexHost(map, server, Head(listing)), server, Tail(listing))

\* getAggregatedHosts: one property per alias, in the Map's order (here:
\* the order of HostOrder)
HostOrder == <<"h1", "h2", "n2", "h3", "zz">>

getAggregatedHosts(map) ==
  LET known(k) == k \in DOMAIN map
      ks == SelectSeq(HostOrder, known)
  IN Obj([i \in 1..Len(ks) |->
            P(ks[i], Obj(<<P("server_label", Str(map[ks[i]].server_label)),
                           P("server_url", Str(map[ks[i]].server_url))>>))])

\* a variant of BucketKey that makes one bucket per host
BucketKeyByHost(entry) == entry.key

\* const key = entry.server_label

BucketKey(entry) == entry.server_label

\* one turn of the loop of _bucketHostsByServer, for a host the Map knows:
\* the first entry seen for a label is kept as the bucket's server
BucketPush(buckets, entry, h) ==
  IF \E i \in 1..Len(buckets) : buckets[i].key = BucketKey(entry)
  THEN [i \in 1..Len(buckets) |->
          IF buckets[i].key = BucketKey(entry)
          THEN [buckets[i] EXCEPT !.hosts = Append(@, h)]
          ELSE buckets[i]]
  ELSE Append(buckets, [key |-> BucketKey(entry), server |-> entry, hosts |-> <<h>>])

RECURSIVE BucketsFrom(_, _, _)
BucketsFrom(map, hs, buckets) ==
  IF hs = <<>> THEN buckets
  ELSE IF Head(hs).t = "str" /\ Head(hs).s \in DOMAIN map
  THEN BucketsFrom(map, Tail(hs), BucketPush(buckets, map[Head(hs).s], Head(hs)))
  ELSE BucketsFrom(map, Tail(hs), buckets)

\* the buckets, in the order of the Map the function returns
bucketHostsByServer(map, hs) == BucketsFrom(map, hs, <<>>)

\* Array.isArray(args?.hosts) ? args.hosts : (args?.host ? [args.host] : [])
RequestedHosts(args) ==
  IF Get(args, "hosts").t = "arr" THEN Get(args, "hosts").a
  ELSE IF Truthy(Get(args, "host")) THEN <<Get(args, "host")>>
  ELSE <<>>

\* const passArgs = { ...args, hosts: hs }
PassArgs(args, hs) == SetKey(Spread(args), "hosts", Arr(hs))

\* server.client of a bucket: the bucket's server is the host entry
HasClient(server) == "client" \in DOMAIN server

TypeErrorSend == Str("TypeError: Cannot read properties of undefined (reading 'send')")

ProviderOutcomes ==
  { [kind |-> "return", value |-> Obj(<<P("hosts", Arr(<<Num(1)>>))>>)],
    [kind |-> "throw", error |-> Str("Error: RPC send failed 500: ")] }

\* results.push({ server_label, ok: true, result: res })
SuccessRecord(server, res) ==
  Obj(<<P("server_label", Str(server.server_label)), P("ok", Bool(TRUE)), P("result", res)>>)

\* results.push({ server_label, ok: false, error: String(e) })
FailureRecord(server, e) ==
  Obj(<<P("server_label", Str(server.server_label)), P("ok", Bool(FALSE)), P("error", e)>>)

IdleMcp ==
  [pc |-> "idle", name |-> "", args |-> Undef, buckets |-> <<>>, results |-> <<>>,
   out |-> Undef]

RegInit ==
  /\ stateServers = <<>>
  /\ stateHosts = <<>>
  /\ sent = <<>>
  /\ mcp = IdleMcp

RegIdle == RegInit

McpTools == {"ListHosts", "CollectMetrics"}

HostLists == UNION { [1..n -> {Str(h) : h \in HostNames}] : n \in 0..MaxHosts }

McpArgs ==
  {Undef, Obj(<<>>)}
    \cup { Obj(<<P("hosts", Arr(hs)), P("query", Str("q"))>>) : hs \in HostLists }
    \cup { Obj(<<P("host", Str(h))>>) : h \in HostNames }

\* state.servers after discovery: each server has its client, whether or
\* not the connection succeeded
DiscoveredServer(cfg, listing) ==
  [server_label |-> cfg.server_label, server_url |-> cfg.server_url, token |-> cfg.token,
   client |-> [url |-> cfg.server_url],
   tools |-> IF listing = <<>> THEN {} ELSE {"ListHosts", "CollectMetrics"}]

\* initializeMcpRegistry: the servers of the configuration, and the hosts
\* each one lists, indexed server after server
initializeMcpRegistry ==
  /\ stateServers = <<>>
  /\ mcp.pc = "idle"
  /\ \E l1 \in Listings.s1, l2 \in Listings.s2 :
       /\ stateServers' = <<DiscoveredServer(ServerConfigs[1], l1),
                            DiscoveredServer(ServerConfigs[2], l2)>>
       /\ stateHosts' = indexHostsFromList(
                          indexHostsFromList(<<>>, ServerConfigs[1], l1),
                          ServerConfigs[2], l2)
  /\ UNCHANGED <<sent, mcp, keyVars, pgVars, mwVars, chatVars>>

\* return { ok: true, results }
McpReturn(results) == Obj(<<P("ok", Bool(TRUE)), P("results", Arr(results))>>)

\* executeMcpFunctionCall up to the loop over the buckets
McpStart(name, args, buckets) ==
  IF name = "ListHosts"
  THEN [pc |-> "done", name |-> name, args |-> args, buckets |-> <<>>, results |-> <<>>,
        out |-> Obj(<<P("ok", Bool(TRUE)), P("hosts", getAggregatedHosts(stateHosts))>>)]
  ELSE IF buckets = <<>>
  THEN [pc |-> "done", name |-> name, args |-> args, buckets |-> buckets,
        results |-> <<>>, out |-> McpReturn(<<>>)]
  ELSE [pc |-> "dispatch", name |-> name, args |-> args, buckets |-> buckets,
        results |-> <<>>, out |-> Undef]

executeMcpFunctionCall ==
  /\ stateServers # <<>>
  /\ mcp.pc = "idle"
  /\ \E name \in McpTools, args \in McpArgs :
       mcp' = McpStart(name, args, bucketHostsByServer(stateHosts, RequestedHosts(args)))
  /\ UNCHANGED <<stateServers, stateHosts, sent, keyVars, pgVars, mwVars, chatVars>>

\* the call once the bucket's record is pushed: the next bucket, or the return
McpPushed(call, results) ==
  IF Len(results) = Len(call.buckets)
  THEN [call EXCEPT !.pc = "done", !.results = results, !.out = McpReturn(results)]
  ELSE [call EXCEPT !.results = results]

\* one turn of the loop of executeMcpFunctionCall, for bucket b: the try
\* around server.client.send and its catch
DispatchBucket(b) ==
  IF ~HasClient(b.server)
  THEN /\ mcp' = McpPushed(mcp, Append(mcp.results, FailureRecord(b.server, TypeErrorSend)))
       /\ UNCHANGED sent
  ELSE /\ sent' = Append(sent, [server_label |-> b.server.server_label, name |-> mcp.name,
                                arguments |-> PassArgs(mcp.args, b.hosts)])
       /\ \E x \in ProviderOutcomes :
            mcp' = McpPushed(mcp, Append(mcp.results,
                     IF x.kind = "return" THEN SuccessRecord(b.server, x.value)
                     ELSE FailureRecord(b.server, x.error)))

Dispatch ==
  /\ mcp.pc = "dispatch"
  /\ DispatchBucket(mcp.buckets[Len(mcp.results) + 1])
  /\ UNCHANGED <<stateServers, stateHosts, keyVars, pgVars, mwVars, chatVars>>

-----------------------------------------------------------------------------
(* The streaming turn engine: ai/services/streaming.js streamOnce *)

\* SAFETY_LIMITS; repetitionThreshold is 0.85, written in hundredths
maxOutputChars == 50000
repetitionWindowSize == 200
repetitionThreshold == 85

\* null, for the fields that hold a string or null
None == "null"

\* A text is a sequence of runs: Run(c, n) is the character c, n times.
\* Adjacent runs hold different characters.
Run(c, n) == [c |-> c, n |-> n]

\* text.length
RECURSIVE TextLength(_)
TextLength(text) ==
  IF text = <<>> THEN 0 ELSE Head(text).n + TextLength(Tail(text))

\* text + delta
RECURSIVE Concat(_, _)
Concat(text, delta) ==
  IF delta = <<>> THEN text
  ELSE IF Head(delta).n = 0 THEN Concat(text, Tail(delta))
  ELSE IF text # <<>> /\ text[Len(text)].c = Head(delta).c
  THEN Concat(SubSeq(text, 1, Len(text) - 1)
                \o <<Run(Head(delta).c, text[Len(text)].n + Head(delta).n)>>,
              Tail(delta))
  ELSE Concat(Append(text, Head(delta)), Tail(delta))

\* chars[c] once the loop of detectRepetition went over text.slice(-w)
RECURSIVE CountInWindow(_, _, _)
CountInWindow(text, c, w) ==
  IF text = <<>> \/ w = 0 THEN 0
  ELSE LET last == text[Len(text)]
           take == IF last.n < w THEN last.n ELSE w
       IN (IF last.c = c THEN take ELSE 0)
            + CountInWindow(SubSeq(text, 1, Len(text) - 1), c, w - take)

\* a variant of detectRepetition that counts over the whole text
detectRepetitionWholeText(text) ==
  IF TextLength(text) < repetitionWindowSize THEN FALSE
  ELSE LET counts == {CountInWindow(text, text[i].c, TextLength(text)) : i \in 1..Len(text)}
           maxCount == CHOOSE m \in counts : \A x \in counts : x <= m
       IN maxCount * 100 > repetitionThreshold * TextLength(text)

detectRepetition(text) ==
  IF TextLength(text) < repetitionWindowSize THEN FALSE
  ELSE LET counts == {CountInWindow(text, text[i].c, repetitionWindowSize) : i \in 1..Len(text)}
           maxCount == CHOOSE m \in counts : \A x \in counts : x <= m
       IN maxCount * 100 > repetitionThreshold * repetitionWindowSize

\* delta.replace(/../g, "") for the empty citation brackets, written "[" and
\* "]" here: one pass from the left.  (The texts of the
\* model hold no U+E200, so the filecite pattern never matches.)
RECURSIVE ReplaceBrackets(_)
ReplaceBrackets(delta) ==
  IF Len(delta) < 2 THEN delta
  ELSE IF delta[1].c = "[" /\ delta[2].c = "]"
  THEN <<Run("[", delta[1].n - 1)>>
         \o ReplaceBrackets(<<Run("]", delta[2].n - 1)>> \o SubSeq(delta, 3, Len(delta)))
  ELSE <<delta[1]>> \o ReplaceBrackets(Tail(delta))

Cleaned(delta) == Concat(<<>>, ReplaceBrackets(delta))

\* a hole of the sparse array functionCalls
NoCall == [hole |-> TRUE]

\* item.arguments || ""  (an argument text is a sequence of fragments)
ArgumentsOrEmpty(item) ==
  IF "arguments" \in DOMAIN item THEN item.arguments ELSE <<>>

\* the output indexes of the function-call items of one turn
OutputIndexes == 1..5

\* the locals of streamOnce once openai.responses.create returned the stream
StreamStart ==
  [pc |-> "streaming",
   newResponseId |-> None,
   functionCalls |-> [i \in OutputIndexes |-> NoCall],
   fullResponseText |-> <<>>,
   startedWriting |-> FALSE,
   incompleteReason |-> None,
   sawCompleted |-> FALSE,
   output_text_delta |-> 0,
   chunks |-> <<>>,
   \* what callbacks.onStreamStart returns when it is called: a controller,
   \* or null when the Slack streamer could not be created
   onStreamStart |-> "controller",
   streamController |-> None,
   \* the calls of the delivery hooks and of streamController.stop, in order
   hooks |-> <<>>]

\* if (!newResponseId && evt?.response?.id) newResponseId = evt.response.id
TrackResponseId(s, evt) ==
  IF s.newResponseId = None /\ "response" \in DOMAIN evt
  THEN [s EXCEPT !.newResponseId = evt.response.id]
  ELSE s

\* response.output_item.added, for a function_call item
ItemAdded(s, evt) ==
  [s EXCEPT !.functionCalls[evt.output_index] =
     [name |-> evt.item.name, call_id |-> evt.item.call_id,
      arguments |-> ArgumentsOrEmpty(evt.item)]]

\* response.function_call_arguments.delta
ArgumentsDelta(s, evt) ==
  IF s.functionCalls[evt.output_index] # NoCall
  THEN [s EXCEPT !.functionCalls[evt.output_index].arguments = @ \o evt.delta]
  ELSE s

\* a variant of DoneArguments that takes the text of the done event
DoneArgumentsFromItem(prior, item) == ArgumentsOrEmpty(item)

\* the arguments of the call once its done event arrived: prior.arguments
DoneArguments(prior, item) == prior.arguments

\* response.output_item.done, for a function_call item
ItemDone(s, evt) ==
  LET idx == evt.output_index
      prior == IF s.functionCalls[idx] # NoCall THEN s.functionCalls[idx]
               ELSE [arguments |-> <<>>]
  IN [s EXCEPT !.functionCalls[idx] =
        [name |-> evt.item.name, call_id |-> evt.item.call_id,
         arguments |-> DoneArguments(prior, evt.item)]]

\* a variant of ExceedsMaxOutput that never stops the stream
ExceedsMaxOutputNever(text) == FALSE

\* fullResponseText.length > SAFETY_LIMITS.maxOutputChars
ExceedsMaxOutput(text) == TextLength(text) > maxOutputChars

\* a variant of Finally that runs only when the loop was left without an
\* exception
FinallyAfterLoop(s) ==
  IF s.pc = "returned" /\ s.streamController # None
  THEN [s EXCEPT !.hooks = Append(@, "stop")]
  ELSE s

\* the finally around the loop over the stream: the controller is stopped
Finally(s) ==
  IF s.streamController # None THEN [s EXCEPT !.hooks = Append(@, "stop")] ELSE s

\* break: the loop over the stream ends and streamOnce returns
Break(s, reason) == Finally([s EXCEPT !.incompleteReason = reason, !.pc = "returned"])

\* a variant of ShouldStart that starts the delivery on every text delta
ShouldStartAlways(s) == TRUE

\* if (!startedWriting)
ShouldStart(s) == ~s.startedWriting

\* startedWriting = true; streamController = await onStreamStart(newResponseId)
StartWriting(s) ==
  IF ShouldStart(s)
  THEN [s EXCEPT !.startedWriting = TRUE,
                 !.streamController = s.onStreamStart,
                 !.hooks = Append(@, "onStreamStart")]
  ELSE s

\* response.output_text.delta with a non-empty delta
OutputTextDelta(s, evt) ==
  LET text == Concat(s.fullResponseText, evt.delta)
      s1 == [StartWriting(s) EXCEPT !.output_text_delta = @ + 1,
                                    !.fullResponseText = text]
      cleaned == Cleaned(evt.delta)
  IN IF ExceedsMaxOutput(text) THEN Break(s1, "output_too_long")
     ELSE IF detectRepetition(text) THEN Break(s1, "repetitive_output")
     ELSE IF Len(cleaned) > 0
     THEN [s1 EXCEPT !.chunks = Append(@, cleaned), !.hooks = Append(@, "onTextChunk")]
     ELSE s1

\* one pass of the loop "for await (const evt of stream)"
HandleEvent(s, evt) ==
  LET s1 == TrackResponseId(s, evt)
  IN CASE evt.type = "response.output_item.added" -> ItemAdded(s1, evt)
       [] evt.type = "response.function_call_arguments.delta" -> ArgumentsDelta(s1, evt)
       [] evt.type = "response.output_item.done" -> ItemDone(s1, evt)
       [] evt.type = "response.output_text.delta" ->
            IF evt.delta # <<>> THEN OutputTextDelta(s1, evt) ELSE s1
       [] evt.type = "response.completed" -> [s1 EXCEPT !.sawCompleted = TRUE]
       [] evt.type = "response.incomplete" ->
            [s1 EXCEPT !.incompleteReason =
               IF evt.reason # None THEN evt.reason ELSE "unknown"]
       [] OTHER -> s1

\* functionCalls.filter(Boolean)
validFunctionCalls(s) ==
  LET idxs == <<1, 2, 3, 4, 5>>
      set(i) == s.functionCalls[i] # NoCall
      kept == SelectSeq(idxs, set)
  IN [k \in 1..Len(kept) |-> s.functionCalls[kept[k]]]

\* the object streamOnce returns
StreamResult(s) ==
  [functionCalls |-> validFunctionCalls(s),
   responseId |-> s.newResponseId,
   hadText |-> s.output_text_delta > 0,
   incompleteReason |-> s.incompleteReason,
   sawCompleted |-> s.sawCompleted,
   fullResponseText |-> s.fullResponseText,
   chunks |-> s.chunks]

\* streamOnce over the events the stream yields, up to its end
RECURSIVE RunStream(_, _)
RunStream(s, events) ==
  IF s.pc # "streaming" THEN s
  ELSE IF events = <<>> THEN Finally([s EXCEPT !.pc = "returned"])
  ELSE RunStream(HandleEvent(s, Head(events)), Tail(events))

-----------------------------------------------------------------------------
(* streamOnce as a machine: one step per event of the stream *)

\* events consumed by one stream
MaxEvents == 5

CallIds == <<"call_1", "call_2", "call_3", "call_4", "call_5">>

CallItems ==
  [i \in OutputIndexes |-> [name |-> "CollectMetrics", call_id |-> CallIds[i]]]

WithArguments(item, text) ==
  [name |-> item.name, call_id |-> item.call_id, arguments |-> text]

\* the added event carries no argument text, or a first fragment
AddedEvents ==
  { [type |-> "response.output_item.added", output_index |-> 1, item |-> CallItems[1]],
    [type |-> "response.output_item.added", output_index |-> 2,
     item |-> WithArguments(CallItems[2], <<"{">>)] }

ArgumentFragments == {"\"hosts\":", "[\"h1\"]}"}

\* the first call gets its text in two kinds of fragment, the second in one
DeltaEvents ==
  { [type |-> "response.function_call_arguments.delta", output_index |-> 1, delta |-> <<f>>] :
      f \in ArgumentFragments }
  \cup { [type |-> "response.function_call_arguments.delta", output_index |-> 2,
          delta |-> <<"[\"h1\"]}">>] }

\* the done event of the first call carries the whole argument text, or none
DoneEvents ==
  { [type |-> "response.output_item.done", output_index |-> 1, item |-> CallItems[1]],
    [type |-> "response.output_item.done", output_index |-> 1,
     item |-> WithArguments(CallItems[1], <<"{\"hosts\":[\"h1\"]}">>)] }

FunctionCallEvents == AddedEvents \cup DeltaEvents \cup DoneEvents

TextDeltas ==
  { <<Run("a", 100)>>, <<Run("a", 71), Run("b", 29)>>, <<Run("a", 70), Run("b", 30)>>,
    <<Run("a", 24900), Run("b", 100), Run("c", 100)>>,
    <<Run("a", 50001)>>,
    <<Run("[", 1), Run("]", 1)>>,
    <<>> }

TextEvents == { [type |-> "response.output_text.delta", delta |-> d] : d \in TextDeltas }

LifecycleEvents ==
  { [type |-> "response.created", response |-> [id |-> "resp_1"]],
    [type |-> "response.completed"],
    [type |-> "response.incomplete", reason |-> "max_output_tokens"] }

NoEvents == [i \in OutputIndexes |-> <<>>]

StInit ==
  /\ stream = [StreamStart EXCEPT !.pc = "streaming"] @@ [events |-> 0]
  /\ argEvents = NoEvents

StIdle ==
  /\ stream = [pc |-> "idle"]
  /\ argEvents = NoEvents

Consumed(evt) ==
  /\ stream.pc = "streaming"
  /\ stream.events < MaxEvents
  /\ stream' = [HandleEvent(stream, evt) EXCEPT !.events = @ + 1]

FunctionCallEvent ==
  \E evt \in FunctionCallEvents :
    /\ Consumed(evt)
    /\ argEvents' = [argEvents EXCEPT ![evt.output_index] = Append(@, evt)]
    /\ UNCHANGED <<toolVars, auxVars, loopVars, cmVars>>

\* a controller, or null
StreamerOutcomes == {"controller", None}

\* a text delta; the first non-empty one calls onStreamStart
TextEvent ==
  \E evt \in TextEvents, started \in StreamerOutcomes :
    /\ stream.pc = "streaming"
    /\ stream.events < MaxEvents
    /\ stream.startedWriting \/ evt.delta = <<>> => started = stream.onStreamStart
    /\ stream' = [HandleEvent([stream EXCEPT !.onStreamStart = started], evt)
                    EXCEPT !.events = @ + 1]
    /\ UNCHANGED <<argEvents, toolVars, auxVars, loopVars, cmVars>>

LifecycleEvent ==
  \E evt \in LifecycleEvents :
    /\ Consumed(evt)
    /\ UNCHANGED <<argEvents, toolVars, auxVars, loopVars, cmVars>>

\* the stream ends: the loop is left and streamOnce returns
StreamEnds ==
  /\ stream.pc = "streaming"
  /\ stream' = Finally([stream EXCEPT !.pc = "returned"])
  /\ UNCHANGED <<argEvents, toolVars, auxVars, loopVars, cmVars>>

\* the iteration of the stream throws: streamOnce rejects
StreamThrows ==
  /\ stream.pc = "streaming"
  /\ stream' = Finally([stream EXCEPT !.pc = "threw"])
  /\ UNCHANGED <<argEvents, toolVars, auxVars, loopVars, cmVars>>

-----------------------------------------------------------------------------
(* executeStreamWithRetry: streamOnce with the delivery hooks of respond.js *)

SLACK_SAFE_LENGTH == 35000

\* "\n\n... _(output truncated - message too long)_".length
WarningLength == 45

\* the locals of executeStreamWithRetry before streamOnce is called, and
\* what was handed to Slack: the characters of answer text, the warnings,
\* and the chunks handed over after a warning
DeliveryStart ==
  [pc |-> "streaming", totalCharsStreamed |-> 0, truncated |-> FALSE,
   answer |-> 0, warnings |-> 0, late |-> 0]

\* a variant of OverLimit that never truncates
OverLimitNever(total, length) == FALSE

\* totalCharsStreamed + cleaned.length > SLACK_SAFE_LENGTH
OverLimit(total, length) == total + length > SLACK_SAFE_LENGTH

\* the first chunk over the limit: what is left of the limit is delivered,
\* then the warning
Truncate(d, length) ==
  LET remaining == IF SLACK_SAFE_LENGTH - d.totalCharsStreamed > 0
                   THEN SLACK_SAFE_LENGTH - d.totalCharsStreamed ELSE 0
      truncatedChunk == IF length < remaining THEN length ELSE remaining
  IN [d EXCEPT !.truncated = TRUE,
               !.answer = @ + truncatedChunk,
               !.warnings = @ + 1,
               !.totalCharsStreamed = @ + truncatedChunk + WarningLength]

\* onTextChunk(cleaned, streamController) for a chunk of `length` characters:
\* the locals afterwards, and whether the hook threw.  Without a controller
\* the hook reads result, the const that receives what streamOnce returns,
\* while streamOnce is still running: a ReferenceError
onTextChunk(d, length, streamController) ==
  IF OverLimit(d.totalCharsStreamed, length)
  THEN [d |-> IF ~d.truncated THEN Truncate(d, length) ELSE d, threw |-> FALSE]
  ELSE IF streamController # None
  THEN [d |-> [d EXCEPT !.totalCharsStreamed = @ + length,
                        !.answer = @ + length,
                        !.late = IF d.warnings > 0 THEN @ + 1 ELSE @],
        threw |-> FALSE]
  ELSE [d |-> [d EXCEPT !.totalCharsStreamed = @ + length], threw |-> TRUE]

\* texts long enough to reach the limit of a Slack message
LongDeltas ==
  { <<Run("a", 19800), Run("b", 100), Run("c", 100)>>,
    <<Run("a", 34900), Run("b", 50), Run("c", 50)>>,
    <<Run("a", 35900), Run("b", 50), Run("c", 50)>>,
    <<Run("b", 50), Run("c", 50)>> }

DeliveryInit ==
  /\ StInit
  /\ delivery = DeliveryStart

\* streamOnce handles a text delta with the hooks of executeStreamWithRetry;
\* an exception of onTextChunk leaves the loop through the finally
DeliverText ==
  \E delta \in LongDeltas, started \in StreamerOutcomes :
    /\ stream.pc = "streaming"
    /\ stream.events < MaxEvents
    /\ stream.startedWriting => started = stream.onStreamStart
    /\ LET s == [HandleEvent([stream EXCEPT !.onStreamStart = started],
                             [type |-> "response.output_text.delta", delta |-> delta])
                  EXCEPT !.events = @ + 1]
           forwarded == Len(s.chunks) > Len(stream.chunks)
           hook == IF forwarded
                   THEN onTextChunk(delivery, TextLength(s.chunks[Len(s.chunks)]),
                                    s.streamController)
                   ELSE [d |-> delivery, threw |-> FALSE]
       IN /\ stream' = IF hook.threw THEN Finally([s EXCEPT !.pc = "threw"]) ELSE s
          /\ delivery' = hook.d
    /\ UNCHANGED <<argEvents, poll, toolVars, loopVars, cmVars, cacheOp, clVars>>

\* the stream ends, or its iteration throws
DeliverEnds ==
  /\ stream.pc = "streaming"
  /\ delivery.pc = "streaming"
  /\ \E pc \in {"returned", "threw"} : stream' = Finally([stream EXCEPT !.pc = pc])
  /\ UNCHANGED <<delivery, argEvents, poll, toolVars, loopVars, cmVars, cacheOp, clVars>>

\* executeStreamWithRetry once streamOnce has returned: if (streamer) await
\* streamer.stop(); the streamer is the object onStreamStart returned.  When
\* streamOnce threw, executeStreamWithRetry throws at the await
AfterStreamOnce ==
  /\ stream.pc \in {"returned", "threw"}
  /\ delivery.pc = "streaming"
  /\ delivery' = [delivery EXCEPT !.pc = stream.pc]
  /\ stream' = [stream EXCEPT !.hooks = IF stream.pc = "returned"
                                           /\ stream.streamController # None
                                        THEN Append(@, "stop") ELSE @]
  /\ UNCHANGED <<argEvents, poll, toolVars, loopVars, cmVars, cacheOp, clVars>>

-----------------------------------------------------------------------------
(* The conversation loop: ai/respond.js respond *)

\* TOKEN_LIMITS.contextThreshold, with the value of TOKEN_THRESHOLD
contextThreshold == 140000

\* An input item with a role holds one input_text of `chars` characters;
\* a function_call_output item has no role and no content.
Message(role, label, chars) == [role |-> role, label |-> label, chars |-> chars]

HasRole(item) == "role" \in DOMAIN item

SystemPromptItem == Message("system", "SYSTEM_PROMPT", 4000)
UserContextItem == Message("system", "User's Slack ID", 60)
CurrentMessageItem == Message("user", "message.text", 40)
SummaryItem == Message("system", "**Summary of earlier conversation:**", 500)
ContinueInstruction ==
  Message("system", "Continue and provide the Slack-visible answer now. Do not call tools.", 69)

\* estimateTokenCount: Math.ceil(chars / 4)
estimateTokenCount(inputItems) ==
  LET chars == SumSeq([i \in 1..Len(inputItems) |->
                         IF HasRole(inputItems[i]) THEN inputItems[i].chars ELSE 0])
  IN (chars + 3) \div 4

\* An error carries the phrases its message includes, its type and its param.
ErrorOf(phrases, type, param) ==
  [t |-> "error", name |-> "Error", message |-> Str("request failed"),
   phrases |-> phrases, type |-> type, param |-> param]

isContextWindowError(error) ==
  \/ "context window" \in error.phrases
  \/ "exceeds" \in error.phrases
  \/ "too many tokens" \in error.phrases
  \/ (error.type = "invalid_request_error" /\ error.param = "input")

\* the number of system items at the beginning of the input
RECURSIVE LeadingSystemItems(_)
LeadingSystemItems(items) ==
  IF items # <<>> /\ HasRole(Head(items)) /\ Head(items).role = "system"
  THEN 1 + LeadingSystemItems(Tail(items))
  ELSE 0

\* a variant of SliceLast that takes the items from the front
SliceFirst(items, n) ==
  IF Len(items) > n THEN SubSeq(items, 1, n) ELSE items

\* array.slice(-n) and array.slice(0, -n) for n > 0
SliceLast(items, n) ==
  IF Len(items) > n THEN SubSeq(items, Len(items) - n + 1, Len(items)) ELSE items
SliceButLast(items, n) ==
  IF Len(items) > n THEN SubSeq(items, 1, Len(items) - n) ELSE <<>>

\* summaryOk: the summarization call returned (it threw otherwise)
summarizeConversationHistory(inputItems, keepRecentCount, summaryOk) ==
  LET n == LeadingSystemItems(inputItems)
      systemItems == SubSeq(inputItems, 1, n)
      conversationItems == SubSeq(inputItems, n + 1, Len(inputItems))
      recentItems == SliceLast(conversationItems, keepRecentCount)
      olderItems == SliceButLast(conversationItems, keepRecentCount)
      hasText(item) == HasRole(item) /\ item.chars > 0
      olderTexts == SelectSeq(olderItems, hasText)
  IN IF olderItems = <<>> THEN inputItems
     ELSE IF olderTexts = <<>> THEN systemItems \o recentItems
     ELSE IF summaryOk THEN systemItems \o <<SummaryItem>> \o recentItems
     ELSE systemItems \o recentItems

\* the number of recent items kept by the pre-flight check and by the
\* recovery from a context-window error
PreflightKeep == 6
OverflowKeep == 4

\* the argument texts JSON.parse accepts, among those of the model
ValidArgumentTexts ==
  { <<"{", "\"hosts\":", "[\"h1\"]}">>, <<"{\"hosts\":[\"h1\"]}">> }

SyntaxError ==
  [t |-> "error", name |-> "SyntaxError", message |-> Str("Unexpected end of JSON input")]

\* argsStr ? JSON.parse(argsStr) : {}
ParsedArguments(argsStr) ==
  IF argsStr = <<>> THEN Obj(<<>>)
  ELSE IF argsStr \in ValidArgumentTexts
  THEN Obj(<<P("hosts", Arr(<<Str("h1")>>))>>)
  ELSE Thrown(SyntaxError)

\* processFunctionCall: `handled` is what the handler of the call does with
\* the parsed arguments, a returned output or a thrown exception
processFunctionCall(functionCall, handled) ==
  LET args == ParsedArguments(functionCall.arguments)
      output == ProcessOutput(IF IsThrown(args) THEN Thrown(StringOf(args.e)) ELSE handled)
  IN IF IsThrown(output) THEN output
     ELSE Arr(<<[type |-> "function_call_output",
                 call_id |-> functionCall.call_id,
                 output |-> output]>>)

\* a variant of NextToolChoice that leaves the forced choice in place
NextToolChoiceKept(forced, previous) == IF forced THEN "none" ELSE previous

\* forceToolChoiceNext after a turn: undefined, or "none" for the forced
\* text-only turn
NextToolChoice(forced, previous) == IF forced THEN "none" ELSE "undefined"

\* !hadText && (!functionCalls || functionCalls.length === 0) && incompleteReason
IncompleteWithNoOutput(result) ==
  /\ ~result.hadText
  /\ result.functionCalls = <<>>
  /\ result.incompleteReason # None

-----------------------------------------------------------------------------
(* respond as a machine: one step per awaited call; turnLog holds the latest
   call of streamOnce *)

\* iterations of the conversation loop
MaxTurns == 3
\* messages of the thread before the incoming one
MaxHistory == 5

ResponseIds == <<"resp_1", "resp_2", "resp_3", "resp_4", "resp_5", "resp_6", "resp_7", "resp_8", "resp_9", "resp_10">>

CreatedEvent(id) == [type |-> "response.created", response |-> [id |-> id]]
CompletedEvent == [type |-> "response.completed"]
IncompleteEvent == [type |-> "response.incomplete", reason |-> "max_output_tokens"]
TextEvent1(delta) == [type |-> "response.output_text.delta", delta |-> delta]
AddedEvent(i, text) ==
  [type |-> "response.output_item.added", output_index |-> i,
   item |-> WithArguments(CallItems[i], text)]
ArgumentsEvent(i, fragment) ==
  [type |-> "response.function_call_arguments.delta", output_index |-> i,
   delta |-> <<fragment>>]
DoneEvent(i) ==
  [type |-> "response.output_item.done", output_index |-> i, item |-> CallItems[i]]

CompleteCall(i) ==
  <<AddedEvent(i, <<"{">>), ArgumentsEvent(i, "\"hosts\":"),
    ArgumentsEvent(i, "[\"h1\"]}"), DoneEvent(i)>>
\* the stream of a call whose argument text stops short
TruncatedCall(i) ==
  <<AddedEvent(i, <<"{">>), ArgumentsEvent(i, "\"hosts\":"), DoneEvent(i)>>
WholeCall(i) == <<AddedEvent(i, <<"{\"hosts\":[\"h1\"]}">>), DoneEvent(i)>>

\* what the stream of one turn may yield
TurnScripts(id) ==
  { <<CreatedEvent(id), TextEvent1(<<Run("a", 100)>>), CompletedEvent>>,
    <<CreatedEvent(id), TextEvent1(<<Run("[", 1), Run("]", 1)>>), CompletedEvent>>,
    <<CreatedEvent(id), CompletedEvent>>,
    <<CompletedEvent>>,
    WholeCall(1) \o <<CompletedEvent>>,
    <<CreatedEvent(id), IncompleteEvent>>,
    <<CreatedEvent(id)>> \o WholeCall(1) \o <<IncompleteEvent>>,
    <<CreatedEvent(id)>> \o TruncatedCall(1) \o CompleteCall(2) \o <<CompletedEvent>>,
    <<CreatedEvent(id)>> \o WholeCall(1) \o WholeCall(2) \o WholeCall(3)
       \o WholeCall(4) \o WholeCall(5) \o <<CompletedEvent>> }

ContextWindowError == ErrorOf({"context window"}, "invalid_request_error", "input")
TerminatedError == ErrorOf({"terminated"}, "server_error", None)
RateLimitError == ErrorOf({}, "rate_limit_error", None)
StreamErrors == {ContextWindowError, TerminatedError, RateLimitError}

\* what the handler of a call, behind the middleware, may do: the first call
\* of a turn may fail, the second may give an output beyond the hard limit
HandlerOutcomes(call_id) ==
  {Obj(<<P("ok", Bool(TRUE)), P("hosts", ArrayOfLen(2))>>)}
    \cup (IF call_id = "call_1" THEN {Thrown(Str("Error: connection refused"))} ELSE {})
    \cup (IF call_id = "call_2"
          THEN {Obj(<<P("ok", Bool(TRUE)), P("data", Arr(<<Blob, Blob, Blob>>))>>)}
          ELSE {})

\* the thread before the incoming message: n messages of the user and the
\* bot in turn, short ones or long ones
History(n, chars) ==
  [k \in 1..n |-> Message(IF k % 2 = 1 THEN "user" ELSE "assistant", "history", chars)
                    @@ [k |-> k]]

\* buildInitialInput, buildConversationInput and appendCurrentMessage
InitialInput(previousResponseId, n, chars) ==
  (IF previousResponseId = None THEN <<SystemPromptItem>> \o History(n, chars) ELSE <<>>)
    \o <<UserContextItem, CurrentMessageItem>>

\* the locals of respond before the pre-flight context check
Respond(previousResponseId, input) ==
  [pc |-> "preflight",
   input |-> input,
   contextSummarized |-> FALSE,
   previousResponseId |-> previousResponseId,
   responseIdFromFinalTurn |-> None,
   anyTextStreamed |-> FALSE,
   sawAnyIncomplete |-> FALSE,
   forceToolChoiceNext |-> "undefined",
   loopIteration |-> 0,
   functionCalls |-> <<>>,
   \* what the log lines of respond tell: the calls of streamOnce made, the
   \* last returned turn, the summarizations, the retries, the continuation
   \* calls, and what was handed to the user
   calls |-> 0,
   lastTurn |-> [returned |-> FALSE],
   summaries |-> <<>>,
   retries |-> 0,
   continuations |-> 0,
   recoveryPolls |-> <<>>, forcedRun |-> 0,
   delivered |-> <<>>]

LoopInit ==
  /\ \E prev \in {None, "resp_0"}, n \in {0, MaxHistory}, chars \in {40, 200000} :
       loop = Respond(prev, InitialInput(prev, n, chars))
  /\ turnLog = <<>>

\* the pre-flight context check
PreFlight ==
  /\ loop.pc = "preflight"
  /\ \E summaryOk \in BOOLEAN :
       loop' =
         IF estimateTokenCount(loop.input) > contextThreshold
         THEN [loop EXCEPT
                 !.input = summarizeConversationHistory(@, PreflightKeep, summaryOk),
                 !.contextSummarized = TRUE,
                 !.summaries = Append(@, [at |-> "preflight", keep |-> PreflightKeep,
                                          before |-> loop.input, ok |-> summaryOk]),
                 !.pc = "turn", !.loopIteration = 1]
         ELSE [loop EXCEPT !.pc = "turn", !.loopIteration = 1]
  /\ UNCHANGED <<turnLog, toolVars, auxVars, stVars, cmVars>>

\* the call of streamOnce that executeStreamWithRetry makes
StreamCall(l, outcome) ==
  [iteration |-> l.loopIteration,
   attempt |-> l.pc,
   input |-> l.input,
   tool_choice |-> l.forceToolChoiceNext,
   previous_response_id |-> l.previousResponseId,
   contextSummarized |-> l.contextSummarized,
   after |-> l.lastTurn,
   outcome |-> outcome]

\* the call ids of the function calls of a turn
RequestedIds(functionCalls) == [i \in 1..Len(functionCalls) |-> functionCalls[i].call_id]

Called(l) ==
  [l EXCEPT !.calls = @ + 1, !.retries = IF l.pc = "retry" THEN @ + 1 ELSE @]

\* text handed to the user: a chunk appended to the Slack stream
Streamed(chunks) == [i \in 1..Len(chunks) |-> [via |-> "stream", text |-> chunks[i]]]
Said(text) == [via |-> "say", text |-> text]
\* suggestSummarizeNow, with the empty message that carries the metadata
Affordance == <<[via |-> "setSuggestedPrompts", text |-> "M8B, summarize now."],
                [via |-> "say", text |-> "zero-width space"]>>

\* the end of the loop: handleNoTextStreamed is called for a final response
\* id without streamed text
AfterLoop(l) ==
  IF l.responseIdFromFinalTurn # None /\ ~l.anyTextStreamed
  THEN [l EXCEPT !.pc = "polling"]
  ELSE [l EXCEPT !.pc = "done"]

\* the body of the loop after the turn returned, up to the tool calls
AfterTurn(l, result) ==
  LET forced == IncompleteWithNoOutput(result)
      l1 == [l EXCEPT
               !.responseIdFromFinalTurn =
                  IF result.responseId # None THEN result.responseId ELSE @,
               !.previousResponseId =
                  IF result.responseId # None THEN result.responseId ELSE @,
               !.anyTextStreamed = @ \/ result.hadText,
               !.sawAnyIncomplete = @ \/ result.incompleteReason # None,
               !.delivered = @ \o Streamed(result.chunks),
               !.lastTurn = [returned |-> TRUE, forced |-> forced,
                             responseId |-> result.responseId,
                             tool_choice |-> l.forceToolChoiceNext,
                             requested |-> RequestedIds(result.functionCalls)],
               !.forcedRun = IF forced THEN @ + 1 ELSE 0,
               !.forceToolChoiceNext = NextToolChoice(forced, @)]
  IN IF forced
     THEN [l1 EXCEPT !.input = <<ContinueInstruction>>,
                     !.pc = "turn", !.loopIteration = @ + 1]
     ELSE IF result.functionCalls = <<>>
     THEN AfterLoop([l1 EXCEPT !.input = <<>>])
     ELSE [l1 EXCEPT !.input = <<>>, !.functionCalls = result.functionCalls,
                     !.pc = "tools"]

\* the argument lastSeenResponseId of recoverFromTerminated in the catch of
\* respond: no binding of that name is in scope there (the local of the try
\* block is _lastSeenResponseId), so reading it throws
LastSeenResponseIdInCatch(l) ==
  Thrown(Str("ReferenceError: lastSeenResponseId is not defined"))

\* recoverFromTerminated: the response ids it polls
recoverFromTerminated(latestResponseId) ==
  IF latestResponseId = None THEN <<>> ELSE <<latestResponseId>>

\* the recovery attempt of the catch, whose errors are ignored
RecoveryPolls(l) ==
  LET latestResponseId == LastSeenResponseIdInCatch(l)
  IN IF IsThrown(latestResponseId) THEN <<>>
     ELSE recoverFromTerminated(latestResponseId)

\* message includes "terminated", or type includes "server_error"
IsTransportError(e) == "terminated" \in e.phrases \/ e.type = "server_error"

\* the catch of respond
Caught(l, e) ==
  [l EXCEPT !.pc = "failed",
            !.recoveryPolls = IF IsTransportError(e) THEN @ \o RecoveryPolls(l) ELSE @,
            !.delivered =
               IF "terminated" \in e.phrases \/ e.type = "server_error"
               THEN @ \o <<Affordance[1]>>
               ELSE Append(@, Said("FFS"))]

\* a variant of OverflowRecoverable that forgets the earlier summarization
OverflowRecoverableAgain(e, contextSummarized) == isContextWindowError(e)

\* isContextWindowError(streamError) && !contextSummarized
OverflowRecoverable(e, contextSummarized) ==
  isContextWindowError(e) /\ ~contextSummarized

\* streamOnce returns
TurnReturns ==
  /\ loop.pc \in {"turn", "retry"}
  /\ loop.loopIteration <= MaxTurns
  /\ \E events \in TurnScripts(ResponseIds[loop.calls + 1]) :
       LET result == StreamResult(RunStream(StreamStart, events))
       IN /\ turnLog' = <<StreamCall(loop, "returned") @@ [result |-> result]>>
          /\ loop' = AfterTurn(Called(loop), result)
  /\ UNCHANGED <<toolVars, auxVars, stVars, cmVars>>

\* streamOnce throws: one summarization and one retry for a context-window
\* error, the catch of respond otherwise
TurnThrows ==
  /\ loop.pc \in {"turn", "retry"}
  /\ loop.loopIteration <= MaxTurns
  /\ \E e \in StreamErrors, summaryOk \in BOOLEAN :
       /\ turnLog' = <<StreamCall(loop, "threw") @@ [error |-> e]>>
       /\ loop' =
            IF loop.pc = "turn" /\ OverflowRecoverable(e, loop.contextSummarized)
            THEN [Called(loop) EXCEPT
                    !.input = summarizeConversationHistory(@, OverflowKeep, summaryOk),
                    !.contextSummarized = TRUE,
                    !.summaries = Append(@, [at |-> "overflow", keep |-> OverflowKeep,
                                             before |-> loop.input, ok |-> summaryOk]),
                    !.pc = "retry"]
            ELSE Caught(Called(loop), e)
  /\ UNCHANGED <<toolVars, auxVars, stVars, cmVars>>

\* processFunctionCall for the next requested call
ProcessCall ==
  /\ loop.pc = "tools"
  /\ \E handled \in HandlerOutcomes(Head(loop.functionCalls).call_id) :
       LET outItems == processFunctionCall(Head(loop.functionCalls), handled)
           rest == Tail(loop.functionCalls)
       IN loop' =
            IF IsThrown(outItems)
            THEN Caught(loop, ErrorOf({}, "TypeError", None))
            ELSE [loop EXCEPT
                    !.input = @ \o outItems.a,
                    !.functionCalls = rest,
                    !.pc = IF rest = <<>> THEN "turn" ELSE "tools",
                    !.loopIteration = IF rest = <<>> THEN @ + 1 ELSE @]
  /\ UNCHANGED <<turnLog, toolVars, auxVars, stVars, cmVars>>

\* what pollUntilTerminal(responseIdFromFinalTurn) may give
PollOutcomes ==
  { [status |-> "completed", text |-> "answer"],
    [status |-> "completed", text |-> ""],
    [status |-> "incomplete", text |-> ""],
    [status |-> "failed", text |-> ""],
    [status |-> "threw", text |-> ""] }

\* handleNoTextStreamed up to the continuation call
PollFinal ==
  /\ loop.pc = "polling"
  /\ \E final \in PollOutcomes :
       loop' =
         IF final.status = "completed" /\ final.text # ""
         THEN [loop EXCEPT !.delivered = Append(@, Said(final.text)), !.pc = "done"]
         ELSE IF final.status = "incomplete" /\ loop.sawAnyIncomplete
         THEN [loop EXCEPT !.continuations = @ + 1, !.pc = "continuing"]
         ELSE [loop EXCEPT !.delivered = @ \o Affordance, !.pc = "done"]
  /\ UNCHANGED <<turnLog, toolVars, auxVars, stVars, cmVars>>

\* what continueIfIncomplete and the poll of the continuation may give: a
\* text, none (also when no continuation was created), or an exception
ContinuationOutcomes == {"more text", "", "threw"}

\* handleNoTextStreamed after continueIfIncomplete
ContinueFinal ==
  /\ loop.pc = "continuing"
  /\ \E text \in ContinuationOutcomes :
       loop' =
         IF text \notin {"", "threw"}
         THEN [loop EXCEPT !.delivered = Append(@, Said(text)), !.pc = "done"]
         ELSE [loop EXCEPT !.delivered = @ \o Affordance, !.pc = "done"]
  /\ UNCHANGED <<turnLog, toolVars, auxVars, stVars, cmVars>>

LoopIdle ==
  /\ loop = [pc |-> "idle"]
  /\ turnLog = <<>>

-----------------------------------------------------------------------------
(* compressMcpOutput applied once and twice *)

\* segments of a status text
MaxSegs == 3

\* a call that was not made, and the value a call returned
NotRun == [run |-> FALSE]
Ran(v) == [run |-> TRUE, v |-> v]

Segments == {"Result: ok", " ", MessageMarker, ConclusionRule, ConclusionWord}

StatusTexts == UNION {[1..n -> Segments] : n \in 0..MaxSegs}

\* monitors with a StatusInformation text, alone or beside another parameter
StatusMonitors ==
  { Obj(<<P("legacyTextParameters",
            Obj(<<P("StatusInformation", StatusText(segs))>> \o others))>>) :
      segs \in StatusTexts,
      others \in {<<>>, <<P("Other", Str("x"))>>} }

FlagValues == {Undef, Bool(TRUE), Bool(FALSE)}

\* the property of a flag, none when the monitor does not have the flag
Flag(k, v) == IF v = Undef THEN <<>> ELSE <<P(k, v)>>

MetricsValues ==
  { Undef,
    Obj(<<>>),
    Obj(<<P("cpu", Obj(<<P("name", Str("cpu")), P("type", Str("gauge")),
                         P("updated", Bool(TRUE))>>))>>),
    Obj(<<P("cpu", Obj(<<P("value", Num(50)), P("name", Str("x")), P("type", Str("gauge")),
                         P("collectTime", Num(1)), P("previousCollectTime", Num(2)),
                         P("previousValue", Num(45)), P("resetMetricsTime", Num(0)),
                         P("updated", Bool(TRUE)),
                         P("attributes", Obj(<<P("unit", Str("percent"))>>))>>))>>) }

\* monitors with the three flags, a discovery time, attributes and metrics
FlagMonitors ==
  { Obj(Flag("connector", c) \o Flag("endpoint", e) \o Flag("is_endpoint", ie)
          \o Flag("metrics", ms) \o extra) :
      c \in FlagValues, e \in FlagValues, ie \in FlagValues, ms \in MetricsValues,
      extra \in {<<>>,
                 <<P("discoveryTime", Num(1)), P("attributes", Obj(<<>>))>>,
                 <<P("id", Str("m1")), P("attributes", Obj(<<P("os", Obj(<<>>))>>))>>} }

Monitors == StatusMonitors \cup FlagMonitors

\* the shapes of a tool output: a monitors array at the top or below the
\* hosts, an array of outputs, objects without monitors, and non-objects
CompressInputs ==
  { Obj(<<P("monitors", Arr(<<m>>))>>) : m \in Monitors }
    \cup { Obj(<<P("hosts", Obj(<<P("h1", Obj(<<P("monitors", Arr(<<m>>))>>))>>))>>) :
             m \in FlagMonitors }
    \cup { Undef, Null, Num(0), Num(7), Str("ok"), Bool(FALSE), Bool(TRUE),
           Arr(<<>>), Obj(<<>>),
           Arr(<<Obj(<<P("monitors", Arr(<<Obj(<<P("connector", Bool(FALSE))>>)>>))>>)>>),
           Obj(<<P("a", Obj(<<P("b", Obj(<<>>)), P("c", Arr(<<>>))>>))>>),
           Obj(<<P("ok", Bool(TRUE)), P("monitors", Str("none")), P("empty", Arr(<<Obj(<<>>)>>))>>) }

CmInit ==
  /\ cmOutput \in CompressInputs
  /\ cmOnce = NotRun
  /\ cmTwice = NotRun

CmIdle ==
  /\ cmOutput = Undef
  /\ cmOnce = NotRun
  /\ cmTwice = NotRun

\* compressMcpOutput(output)
CompressOnce ==
  /\ cmOnce = NotRun
  /\ cmOnce' = Ran(compressMcpOutput(cmOutput))
  /\ UNCHANGED <<cmOutput, cmTwice, toolVars, auxVars, stVars, loopVars>>

\* compressMcpOutput(compressMcpOutput(output))
CompressTwice ==
  /\ cmOnce # NotRun
  /\ cmTwice = NotRun
  /\ cmTwice' = Ran(compressMcpOutput(cmOnce.v))
  /\ UNCHANGED <<cmOutput, cmOnce, toolVars, auxVars, stVars, loopVars>>

-----------------------------------------------------------------------------
(* The result cache near its capacity: setCachedResult called on a Map that
   earlier calls have filled *)

\* entries in the Map at the start
Prefilled == 99
\* calls of setCachedResult
MaxStores == 3

\* the cache id of the i-th distinct request
CacheKeyOf(i) == Sha256Hex16("CollectMetrics", i)

CachedData == [result |-> Null, fileId |-> Undef, fileName |-> Undef]

\* the Map after the results of Prefilled distinct requests were stored, the
\* first aged of them at time 0 and the others one ClockStep later
StoredCache(aged) ==
  [i \in 1..Prefilled |->
     [id |-> CacheKeyOf(i), data |-> CachedData,
      timestamp |-> IF i <= aged THEN 0 ELSE ClockStep, toolName |-> "CollectMetrics"]]

AgedCounts == {0, 1, 2, Prefilled \div 2, Prefilled}

NoCacheOp == [op |-> "none", n |-> 0]

CacheInit ==
  /\ \E aged \in AgedCounts : resultCache = StoredCache(aged)
  /\ now = ClockStep
  /\ nextFileId = 0
  /\ calls = [c \in Callers |-> IdleCall]
  /\ cacheOp = NoCacheOp

CacheIdle == cacheOp = NoCacheOp

\* the ids a call may name: the one of the first entry of the Map, and the
\* one of a request not made before
KnownIds == IF resultCache = <<>> THEN {} ELSE {resultCache[1].id}
FreshId == CacheKeyOf(Prefilled + cacheOp.n + 1)

\* setCachedResult(cacheId, toolName, data)
CacheStore ==
  /\ cacheOp.n < MaxStores
  /\ \E id \in KnownIds \cup {FreshId} :
       /\ resultCache' = setCachedResult(resultCache, id, "CollectMetrics", CachedData, now)
       /\ cacheOp' = [op |-> "set", id |-> id, n |-> cacheOp.n + 1]
  /\ UNCHANGED <<now, nextFileId, calls, keyVars, pgVars, regVars, stVars, loopVars,
                 cmVars, clVars, svcVars>>

-----------------------------------------------------------------------------
(* One SseRpcClient and the asynchronous callers of its send:
   mcp_registry.js *)

\* calls of send per caller
MaxSends == 2

Senders == {"a", "b"}

\* the MCP server answers the requests it accepted over the event stream,
\* or accepts them and never answers
ProviderBehaviours == {"answers", "silent"}

\* the constructor; streams counts the event streams being read
NewClient ==
  [connected |-> FALSE, controller |-> None, idCounter |-> 1, pending |-> {},
   streams |-> 0]

IdleSender == [pc |-> "idle", sends |-> 0, id |-> 0, answer |-> None]

ClInit ==
  /\ client = NewClient
  /\ senders = [c \in Senders |-> IdleSender]
  /\ provider \in ProviderBehaviours

\* send once the client is connected: the id, the promise in pending and
\* the POST, which is awaited
Posts(c, cl) ==
  /\ client' = [cl EXCEPT !.idCounter = @ + 1, !.pending = @ \cup {cl.idCounter}]
  /\ senders' = [senders EXCEPT ![c] =
       [pc |-> "posting", sends |-> senders[c].sends, id |-> cl.idCounter,
        answer |-> None]]

\* a caller calls send: if (!this.connected) await this.connect(), which
\* makes a new AbortController and awaits the GET unless connected is set
Send(c) ==
  /\ senders[c].pc \in {"idle", "resolved", "rejected"}
  /\ senders[c].sends < MaxSends
  /\ LET started == [senders EXCEPT ![c].sends = @ + 1]
     IN IF client.connected
        THEN /\ client' = [client EXCEPT !.idCounter = @ + 1,
                                         !.pending = @ \cup {client.idCounter}]
             /\ senders' = [started EXCEPT ![c] =
                  [@ EXCEPT !.pc = "posting", !.id = client.idCounter, !.answer = None]]
        ELSE /\ client' = [client EXCEPT !.controller = c]
             /\ senders' = [started EXCEPT ![c] = [@ EXCEPT !.pc = "connecting"]]
  /\ UNCHANGED <<provider, cacheOp, svcVars, toolVars, stVars, loopVars, cmVars>>

\* the GET of connect settles: connected and a reader of the stream, or
\* the exception of a failed connect, which send hands on
ConnectSettles(c) ==
  /\ senders[c].pc = "connecting"
  /\ \E ok \in BOOLEAN :
       IF ok
       THEN Posts(c, [client EXCEPT !.connected = TRUE, !.streams = @ + 1])
       ELSE /\ senders' = [senders EXCEPT ![c] = [@ EXCEPT !.pc = "rejected"]]
            /\ UNCHANGED client
  /\ UNCHANGED <<provider, cacheOp, svcVars, toolVars, stVars, loopVars, cmVars>>

\* the POST settles: return p, or the exception for a response that is not ok
PostSettles(c) ==
  /\ senders[c].pc = "posting"
  /\ \E ok \in BOOLEAN :
       IF ok
       THEN /\ senders' = [senders EXCEPT ![c] =
                 [@ EXCEPT !.pc = IF senders[c].answer = None THEN "waiting"
                                  ELSE IF senders[c].answer = "result" THEN "resolved"
                                  ELSE "rejected"]]
            /\ UNCHANGED client
       ELSE /\ senders' = [senders EXCEPT ![c] = [@ EXCEPT !.pc = "rejected"]]
            /\ client' = [client EXCEPT !.pending = @ \ {senders[c].id}]
  /\ UNCHANGED <<provider, cacheOp, svcVars, toolVars, stVars, loopVars, cmVars>>

\* _handleEventData: a message with the id of a pending request arrives on
\* an event stream of the client and settles its promise
Response(c) ==
  /\ provider = "answers"
  /\ client.streams > 0
  /\ senders[c].pc \in {"posting", "waiting"}
  /\ senders[c].id \in client.pending
  /\ \E answer \in {"result", "error"} :
       senders' = [senders EXCEPT ![c] =
         [@ EXCEPT !.answer = answer,
                   !.pc = IF @ = "posting" THEN "posting"
                          ELSE IF answer = "result" THEN "resolved" ELSE "rejected"]]
  /\ client' = [client EXCEPT !.pending = @ \ {senders[c].id}]
  /\ UNCHANGED <<provider, cacheOp, svcVars, toolVars, stVars, loopVars, cmVars>>

\* an event stream ends or fails: finally { this.connected = false }
ReaderEnds ==
  /\ client.streams > 0
  /\ client' = [client EXCEPT !.streams = @ - 1, !.connected = FALSE]
  /\ UNCHANGED <<senders, provider, cacheOp, svcVars, toolVars, stVars, loopVars, cmVars>>

-----------------------------------------------------------------------------
(* Specifications *)

vars == <<toolVars, chatVars>>

-----------------------------------------------------------------------------
(* pollUntilTerminal: openai.js *)

\* the defaults of the options, in milliseconds
intervalMs == 800
maxMs == 180000

\* a timer may fire later than asked, and a retrieval takes time
TimerLag == 200
Latencies == {0, TimerLag}

\* response?.status of a retrieved response; "undefined" when there is none
Statuses == {"queued", "in_progress", "completed", "incomplete", "failed", "undefined"}

Pending(status) == status = "queued" \/ status = "in_progress"

\* a variant of the deadline test that never holds
DeadlineNever(p) == FALSE

\* Date.now() - start > maxMs
DeadlinePassed(p) == p.clock - p.start > maxMs

\* const start = Date.now(); the first openai.responses.retrieve is awaited
PollInit ==
  poll = [pc |-> "retrieving", start |-> 0, clock |-> 0, status |-> "undefined",
          retrieves |-> 0, slept |-> 0]

PollIdle == poll = [pc |-> "idle"]
DeliveryIdle == delivery = [pc |-> "idle"]
SvcIdle == PollIdle /\ DeliveryIdle

\* the awaited retrieval resolves with a response, and the while condition
\* and the deadline are tested
Retrieved ==
  /\ poll.pc = "retrieving"
  /\ \E status \in Statuses, lat \in Latencies :
       LET p == [poll EXCEPT !.clock = @ + lat, !.status = status,
                             !.retrieves = @ + 1]
       IN poll' = [p EXCEPT !.pc = IF ~Pending(status) THEN "returned"
                                   ELSE IF DeadlinePassed(p) THEN "returned"
                                   ELSE "sleeping"]
  /\ UNCHANGED <<delivery, toolVars, stVars, loopVars, cmVars, cacheOp, clVars>>

\* the awaited retrieval rejects: pollUntilTerminal rejects with its error
RetrieveFails ==
  /\ poll.pc = "retrieving"
  /\ \E lat \in Latencies :
       poll' = [poll EXCEPT !.clock = @ + lat, !.retrieves = @ + 1, !.pc = "threw"]
  /\ UNCHANGED <<delivery, toolVars, stVars, loopVars, cmVars, cacheOp, clVars>>

\* the timer of intervalMs fires, and the next retrieval is made
Slept ==
  /\ poll.pc = "sleeping"
  /\ \E lag \in Latencies :
       poll' = [poll EXCEPT !.clock = @ + intervalMs + lag, !.slept = @ + 1,
                            !.pc = "retrieving"]
  /\ UNCHANGED <<delivery, toolVars, stVars, loopVars, cmVars, cacheOp, clVars>>

ClIdle ==
  /\ client = [connected |-> FALSE]
  /\ senders = <<>>
  /\ provider = "none"

ToolIdle == KeyIdle /\ PgIdle /\ MwIdle /\ RegIdle
AuxIdle == CacheIdle /\ ClIdle /\ SvcIdle
ChatIdle == StIdle /\ LoopIdle /\ CmIdle /\ AuxIdle

InitKey == KeyInit /\ PgIdle /\ MwIdle /\ RegIdle /\ ChatIdle
NextKey ==
  \/ DeriveKeyA
  \/ DeriveKeyB
SpecKey == InitKey /\ [][NextKey]_vars

InitPage == PgInit /\ KeyIdle /\ MwIdle /\ RegIdle /\ ChatIdle
NextPage == Paginate
SpecPage == InitPage /\ [][NextPage]_vars

InitMw == MwInit /\ KeyIdle /\ PgIdle /\ RegIdle /\ ChatIdle
NextMw ==
  \/ \E c \in Callers : Begin(c)
  \/ \E c \in Callers : ExecutorThrows(c)
  \/ \E c \in Callers : ExecutorReturns(c)
  \/ \E c \in Callers : UploadSettles(c)
  \/ ClearCache
  \/ Tick
SpecMw == InitMw /\ [][NextMw]_vars

NextTools ==
  \/ \E c \in Callers : BeginAcross(c)
  \/ \E c \in Callers : ExecutorThrows(c)
  \/ \E c \in Callers : ExecutorReturns(c)
  \/ \E c \in Callers : UploadSettles(c)
  \/ ClearCache
  \/ Tick
SpecTools == InitMw /\ [][NextTools]_vars

InitWalk ==
  /\ WalkInit
  /\ resultCache = <<>> /\ now = 0 /\ nextFileId = 0 /\ calls = [c \in Callers |-> IdleCall]
  /\ KeyIdle /\ RegIdle /\ ChatIdle
NextWalk ==
  \/ WalkFirst
  \/ WalkNext
SpecWalk == InitWalk /\ [][NextWalk]_vars

InitReg == RegInit /\ KeyIdle /\ PgIdle /\ MwIdle /\ ChatIdle
NextReg ==
  \/ initializeMcpRegistry
  \/ executeMcpFunctionCall
  \/ Dispatch
SpecReg == InitReg /\ [][NextReg]_vars

InitStream == StInit /\ ToolIdle /\ LoopIdle /\ CmIdle /\ AuxIdle
NextStream ==
  \/ FunctionCallEvent
  \/ TextEvent
  \/ LifecycleEvent
  \/ StreamEnds
  \/ StreamThrows
SpecStream == InitStream /\ [][NextStream]_vars

InitDeliver == DeliveryInit /\ PollIdle /\ CacheIdle /\ ClIdle /\ ToolIdle /\ LoopIdle /\ CmIdle
NextDeliver ==
  \/ DeliverText
  \/ DeliverEnds
  \/ AfterStreamOnce
SpecDeliver == InitDeliver /\ [][NextDeliver]_vars

InitLoop == LoopInit /\ ToolIdle /\ StIdle /\ CmIdle /\ AuxIdle
NextLoop ==
  \/ PreFlight
  \/ TurnReturns
  \/ TurnThrows
  \/ ProcessCall
  \/ PollFinal
  \/ ContinueFinal
SpecLoop == InitLoop /\ [][NextLoop]_vars

InitCache ==
  /\ CacheInit /\ KeyIdle /\ PgIdle /\ RegIdle /\ StIdle /\ LoopIdle /\ CmIdle /\ ClIdle
  /\ SvcIdle
NextCache ==
  \/ CacheStore
  \/ Tick
SpecCache == InitCache /\ [][NextCache]_vars

InitClient == ClInit /\ CacheIdle /\ SvcIdle /\ ToolIdle /\ StIdle /\ LoopIdle /\ CmIdle
NextClient ==
  \/ \E c \in Senders : Send(c)
  \/ \E c \in Senders : ConnectSettles(c)
  \/ \E c \in Senders : PostSettles(c)
  \/ \E c \in Senders : Response(c)
  \/ ReaderEnds
SpecClient == InitClient /\ [][NextClient]_vars

\* every awaited fetch settles, and a provider that answers does answer
\* while a stream is open; nothing makes a stream end
SpecClientLive ==
  /\ SpecClient
  /\ \A c \in Senders :
       /\ WF_vars(ConnectSettles(c))
       /\ WF_vars(PostSettles(c))
       /\ WF_vars(Response(c))

InitPoll == PollInit /\ DeliveryIdle /\ CacheIdle /\ ClIdle /\ ToolIdle /\ StIdle /\ LoopIdle /\ CmIdle
NextPoll ==
  \/ Retrieved
  \/ RetrieveFails
  \/ Slept
SpecPoll == InitPoll /\ [][NextPoll]_vars

InitCompress == CmInit /\ ToolIdle /\ StIdle /\ LoopIdle /\ AuxIdle
NextCompress ==
  \/ CompressOnce
  \/ CompressTwice
SpecCompress == InitCompress /\ [][NextCompress]_vars

-----------------------------------------------------------------------------
(* Properties of the cache key, under SpecKey *)

\* C5: two argument sets for the same logical request (the same content in
\* any insertion order, with or without offset, maxResults and _cacheId)
\* get the same cache key, for every tool name
C5_EquivalentArgsSameKey ==
  (keyA # Undef /\ keyB # Undef /\ Equivalent(keyArgsA, keyArgsB)) => keyA = keyB

\* C5 witness: both keys derived, from the same content inserted in another
\* order, one of the two with pagination parameters
C5_Witness ==
  /\ keyA # Undef /\ keyB # Undef
  /\ Equivalent(keyArgsA, keyArgsB)
  /\ ObjectKeys(Content(keyArgsA)) # ObjectKeys(Content(keyArgsB))
  /\ HasKey(keyArgsA, "offset") /\ ~HasKey(keyArgsB, "offset")
  /\ keyA = keyB

-----------------------------------------------------------------------------
(* Properties of pagination, under SpecPage *)

Min(a, b) == IF a < b THEN a ELSE b

\* the primary collection of the output, and the one of the page, as sequences
PgData ==
  IF findPrimaryData(pgOutput).isObject
  THEN findPrimaryData(pgOutput).data.o ELSE findPrimaryData(pgOutput).data.a

PgPage ==
  IF Get(pgResult.inline, findPrimaryData(pgOutput).key).t = "obj"
  THEN Get(pgResult.inline, findPrimaryData(pgOutput).key).o
  ELSE Get(pgResult.inline, findPrimaryData(pgOutput).key).a

PgBlock == Get(pgResult.inline, "_pagination")

\* paginateOutput has run on an output that has a primary collection
PgPaged == pgResult # Undef /\ findPrimaryData(pgOutput).found

\* the collection fits one page and is asked from its start
PgWhole == Len(PgData) <= pgLimit /\ pgOffset = 0

\* the page holds `returned` elements, those from position pgOffset on, and
\* the block says so
PageFacts(returned) ==
  /\ Len(PgPage) = returned
  /\ \A i \in 1..returned : PgPage[i] = PgData[pgOffset + i]
  /\ Get(PgBlock, "returned") = Num(returned)
  /\ Get(PgBlock, "total") = Num(Len(PgData))
  /\ Get(PgBlock, "hasMore") = Bool(pgOffset + returned < Len(PgData))
  /\ Get(PgBlock, "nextOffset") =
       IF pgOffset + returned < Len(PgData) THEN Num(pgOffset + returned) ELSE Null

-----------------------------------------------------------------------------
(* Properties of the middleware, under SpecMw *)

\* the elements of s at positions off .. off + lim - 1 (counted from 0), in
\* order, as far as s goes
Window(s, off, lim) ==
  [i \in 1..(IF Min(lim, Len(s) - off) > 0 THEN Min(lim, Len(s) - off) ELSE 0) |->
     s[off + i]]

\* the "too large" error of ensureSafeSize
IsSizeError(v) ==
  /\ v.t = "obj"
  /\ Get(v, "ok") = Bool(FALSE)
  /\ Get(v, "error").t = "str"
  /\ "tpl" \in DOMAIN Get(v, "error")
  /\ Get(v, "error").tpl[1] = "Output too large for inline"

\* what call c returned holds the window of the primary collection of the
\* result of call d that c asked for
ServedSlice(c, d) ==
  LET primary == findPrimaryData(calls[d].result)
  IN /\ primary.found
     /\ Get(calls[c].mw, primary.key) =
          IF primary.isObject
          THEN Obj(Window(primary.data.o, calls[c].offset, calls[c].maxResults))
          ELSE Arr(Window(primary.data.a, calls[c].offset, calls[c].maxResults))

\* C1 (as amended): every call of the model has the same non-pagination
\* arguments. A call that starts while an entry stored by an earlier call is
\* in the cache and has not expired does not invoke the executor, and what
\* it returns is the requested slice of the stored result (or the size error).
C1_LiveEntryServesSecondCall ==
  \A c \in Callers :
    (Done(c) /\ calls[c].liveFrom # {}) =>
      /\ calls[c].hit
      /\ ~calls[c].executed
      /\ IsSizeError(calls[c].mw) \/ \E d \in calls[c].liveFrom : ServedSlice(c, d)

\* C1 witness: a second call with another offset is served a page from the
\* entry the first call stored
C1_Witness ==
  \E c, d \in Callers :
    /\ Done(c) /\ d \in calls[c].liveFrom
    /\ calls[c].hit
    /\ calls[c].offset # calls[d].offset
    /\ HasKey(calls[c].mw, "_pagination")
    /\ ServedSlice(c, d)

\* C1 as stated: of two calls with the same non-pagination arguments, the
\* second one, started after the first has returned, never invokes the executor
C1_SecondCallNeverExecutes ==
  \A c, d \in Callers :
    (Done(c) /\ d \in calls[c].prior /\ calls[d].executed) => ~calls[c].executed

\* C2: an exception of the executor becomes the returned value
\* { ok: false, error: String(e) }, and no call of processFunctionCall ends
\* with an exception, whatever the executor did
C2_ExecutorFailureReturned ==
  \A c \in Callers :
    Done(c) =>
      /\ ~IsThrown(calls[c].out)
      /\ calls[c].execError # Undef =>
           /\ ~IsThrown(calls[c].mw)
           /\ ObjectKeys(calls[c].mw) = <<"ok", "error">>
           /\ Get(calls[c].mw, "ok") = Bool(FALSE)
           /\ Get(calls[c].mw, "error").t = "str"
           /\ Get(calls[c].mw, "error").s =
                calls[c].execError.name \o ": " \o calls[c].execError.message.s

\* C2 witness: the executor of a finished call threw; another finished call
\* failed inside the middleware after its executor returned
C2_Witness ==
  \E c, d \in Callers :
    /\ Done(c) /\ calls[c].execError # Undef /\ Get(calls[c].out, "ok") = Bool(FALSE)
    /\ Done(d) /\ calls[d].execError = Undef /\ IsThrown(calls[d].mw)

RecordedFile(c) == IF calls[c].hit THEN calls[c].cachedFile ELSE calls[c].uploaded

\* C7: a size error returned by a call for which a file was recorded (fresh
\* upload, or the cache entry's) carries that file's id and name
C7_SizeErrorKeepsFile ==
  \A c \in Callers :
    (Done(c) /\ IsSizeError(calls[c].mw) /\ Truthy(RecordedFile(c).fileId)) =>
      /\ Get(Get(calls[c].mw, "_file"), "fileId") = RecordedFile(c).fileId
      /\ Get(Get(calls[c].mw, "_file"), "fileName") = RecordedFile(c).fileName

\* C7 witness: a size error that carries the file of the cache entry, where
\* another call had uploaded it
C7_Witness ==
  \E c, d \in Callers :
    /\ Done(c) /\ calls[c].hit /\ IsSizeError(calls[c].mw)
    /\ Done(d) /\ ~calls[d].hit /\ Truthy(calls[d].uploaded.fileId)
    /\ calls[c].cachedFile = calls[d].uploaded
    /\ Get(Get(calls[c].mw, "_file"), "fileId") = calls[d].uploaded.fileId

\* the keys of an object, in order, without the pagination parameters
OtherKeys(obj) ==
  LET kept(k) == k \notin PaginationParams
  IN SelectSeq(ObjectKeys(obj), kept)

\* C27: a call that misses the cache invokes the executor, once, with the
\* caller's arguments without offset, maxResults and _cacheId, every other
\* argument as it was, and the caller's object is as it was handed in; a call
\* that hits the cache does not invoke the executor
C27_ExecutorGetsCleanArgsOnce ==
  \A c \in Callers :
    calls[c].pc # "idle" =>
      /\ calls[c].args \in MwArgs
      /\ IF calls[c].hit
         THEN ~calls[c].executed /\ calls[c].cleanArgs = Undef
         ELSE /\ calls[c].executed
              /\ calls[c].cleanArgs.t = "obj"
              /\ ObjectKeys(calls[c].cleanArgs) = OtherKeys(calls[c].args)
              /\ \A i \in 1..Len(calls[c].cleanArgs.o) :
                   calls[c].cleanArgs.o[i].v = Get(calls[c].args, calls[c].cleanArgs.o[i].k)

\* a call with the three pagination parameters missed the cache, and a later
\* call hit the entry it stored
C27_Witness ==
  \E c, d \in Callers :
    /\ Done(c) /\ ~calls[c].hit
    /\ \A k \in PaginationParams : HasKey(calls[c].args, k)
    /\ calls[c].cleanArgs = BaseArgs
    /\ Done(d) /\ calls[d].hit /\ c \in calls[d].prior

\* the size of the primary collection of a result, 0 when it has none
CollectionSize(result) ==
  LET primary == findPrimaryData(result)
  IN IF primary.found THEN PrimarySize(primary) ELSE 0

\* the step of caller c that ends a call that missed the cache
EndsMiss(c) == calls[c].pc \in {"executor", "upload"} /\ calls'[c].pc = "done"

\* C28: the end of a call that missed the cache stores the full result under
\* the cache id of the call when the executor succeeded and the primary
\* collection of the result is larger than maxResults or larger than 100,
\* and leaves the cache as it was otherwise
C28_CachedIffLargeCollection ==
  [][\A c \in Callers :
       EndsMiss(c) =>
         LET call == calls'[c]
             size == CollectionSize(call.result)
             i == CacheIndex(resultCache', call.cacheId)
         IN IF call.execError = Undef /\ (size > call.maxResults \/ size > 100)
            THEN /\ call.cached
                 /\ i # 0
                 /\ resultCache'[i].timestamp = now
                 /\ DelKey(resultCache'[i].data.result, "_file") = call.result
            ELSE /\ ~call.cached
                 /\ resultCache' = resultCache]_vars

\* a result of 101 items asked for with a page size of 200 was cached
C28_Witness ==
  \E c \in Callers :
    /\ Done(c) /\ calls[c].cached
    /\ CollectionSize(calls[c].result) = 101
    /\ calls[c].maxResults = 200
    /\ CacheIndex(resultCache, calls[c].cacheId) # 0

\* the step in which caller c looks its cache id up
LooksUp(c) == calls[c].pc = "idle" /\ calls'[c].pc # "idle"

\* C26: a lookup more than 5 minutes after the entry was stored removes the
\* entry, is a miss and has the executor invoked; a lookup is a hit only
\* within 5 minutes of the storing; and an entry leaves the cache only by
\* such a lookup of its own id, by the cleanup of a full cache or by clearCache
C26_NeverServedAfterTtl ==
  [][/\ \A c \in Callers :
          LooksUp(c) =>
            LET i == CacheIndex(resultCache, calls'[c].cacheId)
            IN /\ (i # 0 /\ now - resultCache[i].timestamp > 300000) =>
                    /\ CacheIndex(resultCache', calls'[c].cacheId) = 0
                    /\ ~calls'[c].hit
                    /\ calls'[c].executed
                    /\ calls'[c].pc = "executor"
               /\ calls'[c].hit => (i # 0 /\ now - resultCache[i].timestamp <= 300000)
     /\ \A i \in 1..Len(resultCache) :
          CacheIndex(resultCache', resultCache[i].id) = 0 =>
            \/ \E c \in Callers :
                  /\ LooksUp(c)
                  /\ calls'[c].cacheId = resultCache[i].id
                  /\ now - resultCache[i].timestamp > 300000
            \/ Len(resultCache) >= 100
            \/ resultCache' = <<>> /\ calls' = calls]_vars

\* a call found the entry of an earlier call expired and had the executor
\* invoked again
C26_Witness ==
  \E c, d \in Callers :
    /\ Done(c) /\ calls[c].cached
    /\ Done(d) /\ c \in calls[d].prior
    /\ calls[d].lookup = "Expired"
    /\ calls[d].executed /\ calls[d].execError = Undef

-----------------------------------------------------------------------------
(* Properties of the cache at capacity, under SpecCache *)

\* the step is a call of setCachedResult
Stores == cacheOp' # cacheOp /\ cacheOp'.op = "set"

IdsIn(cache) == {cache[i].id : i \in 1..Len(cache)}

\* the entries of the Map that are not expired, as positions
Unexpired == {i \in 1..Len(resultCache) : now - resultCache[i].timestamp <= 300000}

\* the unexpired entries a step removes
Evicted == {i \in Unexpired : resultCache[i].id \notin IdsIn(resultCache')}

\* C25: a store into a Map of 100 entries removes every expired entry; when
\* fewer than 100 entries are left it removes no other entry; when 100 are
\* left it removes at most 50 of them, none newer than an entry it keeps.
\* A store into a Map of fewer than 100 entries removes nothing. What a store
\* keeps, it keeps as it was, and the Map never holds more than 100 entries.
C25_ExpiredFirstThenOldestHalf ==
  [][Stores =>
       /\ Len(resultCache') <= 100
       /\ \A i \in 1..Len(resultCache) :
            LET j == CacheIndex(resultCache', resultCache[i].id)
            IN (j # 0 /\ resultCache[i].id # cacheOp'.id) => resultCache'[j] = resultCache[i]
       /\ IF Len(resultCache) < 100
          THEN IdsIn(resultCache) \subseteq IdsIn(resultCache')
          ELSE /\ \A i \in 1..Len(resultCache) :
                    (i \notin Unexpired /\ resultCache[i].id # cacheOp'.id)
                      => resultCache[i].id \notin IdsIn(resultCache')
               /\ IF Cardinality(Unexpired) < 100
                  THEN Evicted = {}
                  ELSE /\ Evicted # {}
                       /\ Cardinality(Evicted) <= 50
                       /\ \A i \in Evicted, j \in Unexpired \ Evicted :
                            resultCache[j].id # cacheOp'.id
                              => resultCache[i].timestamp <= resultCache[j].timestamp]_vars

\* a store into a full Map without expired entries has left the newer half
\* and the stored entry
C25_Witness ==
  /\ cacheOp.op = "set"
  /\ now = ClockStep
  /\ Len(resultCache) = 51
  /\ resultCache[Len(resultCache)].id = cacheOp.id

-----------------------------------------------------------------------------
(* Properties of the provider connection, under SpecClient and
   SpecClientLive *)

\* C23: a request that a provider accepted and never answers is settled in
\* the end, by an error, so that the dispatch that awaits it goes on
C23_AcceptedRequestSettles ==
  \A c \in Senders :
    (provider = "silent" /\ senders[c].pc = "waiting")
      ~> (senders[c].pc \in {"resolved", "rejected"})

-----------------------------------------------------------------------------
(* Properties of the registry dispatch, under SpecReg *)

\* the requested hosts the registry knows
KnownRequested ==
  LET known(h) == h.t = "str" /\ h.s \in DOMAIN stateHosts
  IN SelectSeq(RequestedHosts(mcp.args), known)

\* the providers that own a requested host, and the hosts of one of them
Owners == { stateHosts[KnownRequested[i].s].server_label : i \in 1..Len(KnownRequested) }

OwnedBy(l) ==
  LET mine(h) == stateHosts[h.s].server_label = l IN SelectSeq(KnownRequested, mine)

\* a call of a tool that is dispatched to the providers has returned
FanOutDone == mcp.pc = "done" /\ mcp.name # "ListHosts"

RecordsOf(l) ==
  { i \in 1..Len(mcp.results) : Get(mcp.results[i], "server_label") = Str(l) }

\* C8 as stated: a call whose hosts belong to two providers returns two
\* result entries, and each provider was invoked once, with its own hosts
\* and the other arguments unchanged
C8_EachProviderInvokedOnce ==
  (FanOutDone /\ Get(mcp.args, "hosts").t = "arr" /\ Cardinality(Owners) = 2) =>
    /\ Len(mcp.results) = 2
    /\ \A l \in Owners :
         /\ Cardinality({ i \in 1..Len(sent) : sent[i].server_label = l }) = 1
         /\ \A i \in 1..Len(sent) :
              sent[i].server_label = l =>
                sent[i].arguments = SetKey(Spread(mcp.args), "hosts", Arr(OwnedBy(l)))

\* C9 as stated: a call whose hosts are all unknown returns an error, and
\* nothing is sent to a provider
C9_UnknownHostsNoMatchError ==
  (FanOutDone /\ Get(mcp.args, "hosts").t = "arr"
     /\ Len(Get(mcp.args, "hosts").a) > 0 /\ KnownRequested = <<>>) =>
    /\ Get(mcp.out, "ok") = Bool(FALSE)
    /\ HasKey(mcp.out, "error")
    /\ sent = <<>>

-----------------------------------------------------------------------------
(* Properties of the streaming turn engine, under SpecStream *)

\* the position of the last added event among the events of one call, or 0
LastAdded(evs) ==
  LET added == {k \in 1..Len(evs) : evs[k].type = "response.output_item.added"}
  IN IF added = {} THEN 0 ELSE CHOOSE k \in added : \A j \in added : j <= k

\* the fragments of the delta events of one call after position p, in
\* arrival order
RECURSIVE DeltasAfter(_, _)
DeltasAfter(evs, p) ==
  IF p >= Len(evs) THEN <<>>
  ELSE (IF evs[p + 1].type = "response.function_call_arguments.delta"
        THEN evs[p + 1].delta ELSE <<>>) \o DeltasAfter(evs, p + 1)

HasDone(evs, p) ==
  \E k \in (p + 1)..Len(evs) : evs[k].type = "response.output_item.done"

\* C14: the argument text of a call is the text its added event carried
\* followed by the fragments of its own delta events in arrival order,
\* whether or not its done event carries argument text; the events of the
\* other call leave it alone
C14_DeltasConcatenateInOrder ==
  stream.pc # "idle" =>
    \A i \in OutputIndexes :
      LET evs == argEvents[i]
          p == LastAdded(evs)
      IN p > 0 =>
           /\ stream.functionCalls[i] # NoCall
           /\ stream.functionCalls[i].arguments
                = ArgumentsOrEmpty(evs[p].item) \o DeltasAfter(evs, p)

\* one call got a fragment and a done event without text while the other
\* call, added with a first fragment, got a fragment of its own
C14_Witness ==
  /\ stream.pc = "streaming"
  /\ LastAdded(argEvents[1]) = 1 /\ LastAdded(argEvents[2]) = 1
  /\ Len(argEvents[1]) = 3
  /\ argEvents[1][3].type = "response.output_item.done"
  /\ "arguments" \notin DOMAIN argEvents[1][3].item
  /\ stream.functionCalls[1].arguments = <<"\"hosts\":">>
  /\ stream.functionCalls[2].arguments = <<"{", "[\"h1\"]}">>

\* the last 200 characters of the text are more than 85% one character
Repetitive(text) ==
  /\ TextLength(text) >= 200
  /\ \E i \in 1..Len(text) : CountInWindow(text, text[i].c, 200) * 100 > 85 * 200

\* once the turn ended for the reason given, no text is accumulated or
\* handed to onTextChunk any more
StoppedFor(reason) ==
  (stream.pc # "idle" /\ stream.incompleteReason = reason) =>
    /\ stream'.pc = "returned"
    /\ stream'.incompleteReason = reason
    /\ stream'.fullResponseText = stream.fullResponseText
    /\ stream'.chunks = stream.chunks

\* C15 (as stated): a text whose last 200 characters are more than 85% one
\* character has ended the turn with incompleteReason "repetitive_output"
C15_RepetitiveEndsAsRepetitive ==
  (stream.pc # "idle" /\ Repetitive(stream.fullResponseText)) =>
    /\ stream.pc = "returned"
    /\ stream.incompleteReason = "repetitive_output"

\* C15 (amended): a text of at most 50,000 characters whose last 200
\* characters are more than 85% one character has ended the turn with
\* incompleteReason "repetitive_output", and from then on no text delta is
\* accumulated or forwarded
C15_RepetitiveWithinLimitEnds ==
  /\ [](stream.pc # "idle" =>
         ((Repetitive(stream.fullResponseText)
             /\ TextLength(stream.fullResponseText) <= 50000) =>
            /\ stream.pc = "returned"
            /\ stream.incompleteReason = "repetitive_output"))
  /\ [][StoppedFor("repetitive_output")]_vars

\* 171 of the last 200 characters are one character, after text was forwarded
C15_Witness ==
  /\ stream.pc = "returned"
  /\ stream.incompleteReason = "repetitive_output"
  /\ TextLength(stream.fullResponseText) = 200
  /\ CountInWindow(stream.fullResponseText, "a", 200) = 171
  /\ Len(stream.chunks) > 0

\* C16: a text of more than 50,000 characters has ended the turn with
\* incompleteReason "output_too_long" by a normal return, never by a throw,
\* and from then on no text is consumed
C16_TooLongEndsNormally ==
  /\ [](stream.pc # "idle" =>
         (TextLength(stream.fullResponseText) > 50000 =>
            /\ stream.pc = "returned"
            /\ stream.incompleteReason = "output_too_long"))
  /\ [][StoppedFor("output_too_long")]_vars

\* the third text delta takes the text over the limit
C16_Witness ==
  /\ stream.pc = "returned"
  /\ stream.incompleteReason = "output_too_long"
  /\ stream.output_text_delta = 3
  /\ TextLength(stream.fullResponseText) > 50000
  /\ ~Repetitive(stream.fullResponseText)

\* the positions of a hook in the calls of the hooks
HookCalls(name) == {i \in 1..Len(stream.hooks) : stream.hooks[i] = name}

\* C29: onStreamStart is called at most once in a turn, by the step that
\* consumes the first non-empty text delta and no other step, and before
\* every call of onTextChunk
C29_StartHookOnceOnFirstText ==
  /\ [](stream.pc # "idle" =>
          /\ Cardinality(HookCalls("onStreamStart")) <= 1
          /\ HookCalls("onStreamStart") # {} <=> stream.output_text_delta > 0
          /\ \A j \in HookCalls("onTextChunk") : \E i \in HookCalls("onStreamStart") : i < j)
  /\ [][/\ stream.pc # "idle"
        /\ Cardinality({i \in 1..Len(stream'.hooks) : stream'.hooks[i] = "onStreamStart"})
             > Cardinality(HookCalls("onStreamStart"))
        => /\ stream.output_text_delta = 0
           /\ stream'.output_text_delta = 1
           /\ TextLength(stream'.fullResponseText) > 0]_vars

\* after an empty text delta, the first of two text deltas started the
\* delivery and both were forwarded
C29_Witness ==
  /\ stream.pc = "streaming"
  /\ stream.events = 3
  /\ stream.output_text_delta = 2
  /\ argEvents = NoEvents
  /\ stream.newResponseId = "null" /\ ~stream.sawCompleted
  /\ stream.incompleteReason = "null"
  /\ stream.hooks = <<"onStreamStart", "onTextChunk", "onTextChunk">>

\* C30: once streamOnce has returned or thrown, a controller that was
\* created has been stopped, once and as the last call; it is not stopped
\* while the stream is consumed
C30_ControllerStoppedAtEnd ==
  (stream.pc # "idle" /\ stream.streamController # "null") =>
    IF stream.pc \in {"returned", "threw"}
    THEN HookCalls("stop") = {Len(stream.hooks)}
    ELSE HookCalls("stop") = {}

\* the stream threw after text was forwarded to a controller
C30_Witness ==
  /\ stream.pc = "threw"
  /\ stream.streamController = "controller"
  /\ stream.hooks = <<"onStreamStart", "onTextChunk", "stop">>

-----------------------------------------------------------------------------
(* Properties of the conversation loop, under SpecLoop *)

\* the positions of the function_call_output items of an input that answer a call id
AnswersTo(input, call_id) ==
  {j \in 1..Len(input) : "call_id" \in DOMAIN input[j] /\ input[j].call_id = call_id}

AnsweredIds(input) ==
  {input[j].call_id : j \in {i \in 1..Len(input) : "call_id" \in DOMAIN input[i]}}

IdsOf(requested) == {requested[i] : i \in 1..Len(requested)}

\* C11: the input of every call of streamOnce that follows a returned turn
\* holds exactly one function_call_output item for each call id that turn
\* requested, and answers no other call id
C11_AnswersMatchRequests ==
  \A k \in 1..Len(turnLog) :
    turnLog[k].after.returned =>
      /\ AnsweredIds(turnLog[k].input) = IdsOf(turnLog[k].after.requested)
      /\ \A id \in IdsOf(turnLog[k].after.requested) :
           Cardinality(AnswersTo(turnLog[k].input, id)) = 1

\* C12 as stated: every summarization of a message keeps the last 4 items
\* and is followed by the retry of a failed turn
C12_EverySummarizationKeepsFourAndRetries ==
  \A i \in 1..Len(loop.summaries) :
    /\ loop.summaries[i].keep = 4
    /\ loop.pc = "retry" \/ loop.retries = 1

ContextErrorThrown(call) ==
  call.outcome = "threw" /\ isContextWindowError(call.error)

\* C12: one message is summarized at most once. The pre-flight estimate
\* summarizes keeping the last 6 items and retries nothing; a context-window
\* error of a turn, when nothing was summarized before, summarizes keeping
\* the last 4 items and retries that turn once; a context-window error after
\* a summarization is not retried and fails the message.
C12_OneSummarizationPerMessage ==
  /\ loop.pc # "idle" =>
       /\ Len(loop.summaries) <= 1
       /\ loop.contextSummarized <=> Len(loop.summaries) = 1
       /\ \A i \in 1..Len(loop.summaries) :
            LET s == loop.summaries[i]
            IN \/ /\ s.at = "preflight"
                  /\ s.keep = 6
                  /\ estimateTokenCount(s.before) > contextThreshold
                  /\ loop.retries = 0
               \/ /\ s.at = "overflow"
                  /\ s.keep = 4
                  /\ IF loop.pc = "retry" THEN loop.retries = 0 ELSE loop.retries = 1
                  /\ loop.pc = "retry" =>
                       loop.input \in {summarizeConversationHistory(s.before, 4, ok) :
                                         ok \in BOOLEAN}
       /\ loop.summaries = <<>> => loop.retries = 0
  /\ \A k \in 1..Len(turnLog) :
       ContextErrorThrown(turnLog[k]) =>
         IF turnLog[k].contextSummarized
         THEN loop.pc = "failed"
         ELSE loop.pc = "retry" \/ loop.retries = 1

\* the retry of a turn that overflowed overflows again and fails the message
C12_Witness ==
  /\ loop.pc = "failed"
  /\ loop.retries = 1
  /\ Len(loop.summaries) = 1
  /\ loop.summaries[1].at = "overflow"
  /\ Len(turnLog) = 1
  /\ turnLog[1].attempt = "retry"
  /\ ContextErrorThrown(turnLog[1])
  /\ Len(turnLog[1].input) < Len(loop.summaries[1].before)

\* C13: a call of streamOnce has tool_choice "none" and the single
\* instruction as its input exactly when the turn returned before it was
\* incomplete without text and without tool calls; such a turn leaves the
\* loop running; every other call leaves tool_choice undefined
C13_ForcedTurnOnlyAfterEmptyIncomplete ==
  /\ \A k \in 1..Len(turnLog) :
       LET call == turnLog[k]
       IN IF call.after.returned /\ call.after.forced
          THEN /\ call.input = <<ContinueInstruction>>
               /\ call.tool_choice = "none"
          ELSE call.tool_choice = "undefined"
  /\ \A k \in 1..Len(turnLog) :
       (/\ turnLog[k].outcome = "returned"
        /\ ~turnLog[k].result.hadText
        /\ turnLog[k].result.functionCalls = <<>>
        /\ turnLog[k].result.incompleteReason # None)
         => /\ loop.pc = "turn"
            /\ loop.input = <<ContinueInstruction>>
            /\ loop.forceToolChoiceNext = "none"

\* the turn after a forced turn is called with tool_choice undefined
C13_Witness ==
  /\ Len(turnLog) = 1
  /\ turnLog[1].after.returned
  /\ turnLog[1].after.tool_choice = "none"
  /\ ~turnLog[1].after.forced
  /\ turnLog[1].tool_choice = "undefined"
  /\ turnLog[1].iteration = 3

DeliveredIncrementally ==
  \E i \in 1..Len(loop.delivered) : loop.delivered[i].via = "stream"

\* C20: a message that ends with a final response id and without text
\* delivered incrementally has handed something to the user
C20_NeverSilence ==
  (/\ loop.pc = "done"
   /\ loop.responseIdFromFinalTurn # None
   /\ ~DeliveredIncrementally)
    => loop.delivered # <<>>

\* C21: a message that failed by a transport error of a turn, after a turn
\* of the message had returned a response id, has polled that id for a
\* terminal state
C21_TerminationPollsLastSeenId ==
  (/\ loop.pc = "failed"
   /\ Len(turnLog) = 1
   /\ turnLog[1].outcome = "threw"
   /\ IsTransportError(turnLog[1].error)
   /\ loop.responseIdFromFinalTurn # None)
    => loop.recoveryPolls = <<loop.responseIdFromFinalTurn>>

\* C22: a turn that returned without a response id is continued by nothing:
\* a call of streamOnce after it is chained to no response id, and nothing
\* is polled or continued at the end of a message whose last turn had none
C22_NullIdIsNotContinued ==
  /\ \A k \in 1..Len(turnLog) :
       (turnLog[k].after.returned /\ turnLog[k].after.responseId = None)
         => turnLog[k].previous_response_id = None
  /\ (loop.pc \in {"polling", "continuing"}) => loop.lastTurn.responseId # None

\* the input is the one a summarization has just returned
JustSummarized ==
  /\ loop.pc \in {"turn", "retry"}
  /\ Len(loop.summaries) = 1
  /\ IF loop.summaries[1].at = "preflight" THEN loop.calls = 0 ELSE loop.pc = "retry"

IsSystem(item) == "role" \in DOMAIN item /\ item.role = "system"

\* the number of system items an input begins with
PreambleLength(items) ==
  CHOOSE k \in 0..Len(items) :
    /\ \A i \in 1..k : IsSystem(items[i])
    /\ k < Len(items) => ~IsSystem(items[k + 1])

\* the number of items of an input that are kept as they are
RecentLength(items, keep) ==
  IF Len(items) - PreambleLength(items) > keep
  THEN keep ELSE Len(items) - PreambleLength(items)

\* an item older than the recent ones carries text
OlderText(items, keep) ==
  \E i \in PreambleLength(items) + 1 .. Len(items) - keep :
    "chars" \in DOMAIN items[i] /\ items[i].chars > 0

\* the returned input begins with the preamble of the input and ends with
\* its last items
KeepsPreambleAndRecent(before, keep, after) ==
  LET k == PreambleLength(before)
      r == RecentLength(before, keep)
  IN /\ Len(after) >= k + r
     /\ \A i \in 1..k : after[i] = before[i]
     /\ \A i \in 1..r : after[Len(after) - r + i] = before[Len(before) - r + i]

C34_StoredResultUntouched ==
  \A i \in 1..Len(resultCache) :
    /\ ~HasKey(resultCache[i].data.result, "_file")
    /\ ~HasKey(resultCache[i].data.result, "_pagination")
    /\ ~HasKey(resultCache[i].data.result, "_cacheId")

\* C35: a call that is answered from the cache names the tool whose call
\* produced and stored the entry
C35_HitOnlyForSameTool ==
  \A c \in Callers :
    (Done(c) /\ calls[c].hit) => calls[c].entryTool = calls[c].name

\* ceil(a / b)
CeilDiv(a, b) == (a + b - 1) \div b

\* the primary collection of the executor's result
WalkData == PrimaryElements(compressMcpOutput(pgOutput))

C37_DifferentContentDifferentKey ==
  (keyA # Undef /\ keyB # Undef /\ ~Equivalent(keyArgsA, keyArgsB)) => keyA # keyB

\* C38: in a turn in which a Slack streamer is created, its stop() is called
\* at most once by streamOnce and executeStreamWithRetry together
C38_StreamerStoppedAtMostOnce ==
  delivery.pc # "idle" =>
    Cardinality({i \in 1..Len(stream.hooks) : stream.hooks[i] = "stop"}) <= 1

\* C39: in one turn at most 35,000 characters of answer text are handed to
\* Slack, whatever the chunks; the truncation warning is handed over at most
\* once, and no chunk after it
C39_DeliveredTextWithinSlackLimit ==
  delivery.pc # "idle" =>
    /\ delivery.answer <= SLACK_SAFE_LENGTH
    /\ delivery.warnings <= 1
    /\ delivery.late = 0
    /\ delivery.warnings = 1 => delivery.truncated

\* a chunk was cut at the limit, the warning followed, and a later chunk
\* was dropped
C39_Witness ==
  /\ delivery.pc = "returned"
  /\ delivery.warnings = 1
  /\ delivery.answer = SLACK_SAFE_LENGTH
  /\ Len(stream.chunks) = 3
  /\ stream.hooks = <<"onStreamStart", "onTextChunk", "onTextChunk", "onTextChunk",
                      "stop", "stop">>

\* C40: a run of forced text-only continuation turns that each end
\* incomplete with no text and no tool calls comes to an end: it does not
\* fill all the turns the loop is followed for, with another forced turn
\* still to come
C40_ForcedRunEnds ==
  ~(loop.pc = "turn" /\ loop.forcedRun >= MaxTurns /\ loop.forceToolChoiceNext = "none")

\* C33: whatever was stored, and in whatever order the calls reached
\* setCachedResult, the result cache holds at most 100 entries
C33_CacheHoldsAtMostMaxEntries == Len(resultCache) <= MAX_CACHE_ENTRIES

\* a store filled the Map to 100 entries, and the next store, finding it
\* full of unexpired entries, removed the oldest half before it added its own
C33_Witness ==
  /\ cacheOp.op = "set"
  /\ cacheOp.n = 2
  /\ Len(resultCache) = MAX_CACHE_ENTRIES - MAX_CACHE_ENTRIES \div 2 + 1
  /\ resultCache[Len(resultCache)].id = cacheOp.id

-----------------------------------------------------------------------------
(* Properties of the polling loop, under SpecPoll *)

\* the most timers one call can wait for: one may still start at maxMs
MostWaits == maxMs \div intervalMs + 1

\* C32: pollUntilTerminal returns the first retrieved response whose status
\* is neither queued nor in_progress, without waiting again; while the status
\* stays queued or in_progress no wait starts once more than maxMs have
\* passed, so a call waits at most 226 times and then returns the pending
\* response
C32_PollingIsBounded ==
  /\ [][/\ (poll.pc = "retrieving" /\ poll'.pc = "sleeping") =>
            (Pending(poll'.status) /\ poll'.clock - poll'.start <= maxMs)
        /\ (poll.pc = "retrieving" /\ poll'.pc = "retrieving") => FALSE
        /\ (poll'.pc = "returned" /\ poll.pc # "returned") =>
            (~Pending(poll'.status) \/ poll'.clock - poll'.start > maxMs)
        /\ poll.pc \in {"returned", "threw"} => poll' = poll]_vars
  /\ [](poll.slept <= MostWaits /\ poll.retrieves <= MostWaits + 1)

\* the response stayed in progress and the call returned it after the
\* maximal number of waits
C32_Witness ==
  /\ poll.pc = "returned"
  /\ poll.status = "in_progress"
  /\ poll.slept = MostWaits

-----------------------------------------------------------------------------
(* Properties of the compression, under SpecCompress *)

\* C17: compressing a compressed output gives the compressed output
C17_CompressionIdempotent ==
  cmTwice # NotRun => cmTwice.v = cmOnce.v

\* the only monitor of an output whose monitors array is at the top, the
\* empty record when the array is gone
OnlyMonitor(output) ==
  IF output.t = "obj" /\ \E i \in 1..Len(output.o) : output.o[i].k = "monitors"
  THEN (output.o[CHOOSE i \in 1..Len(output.o) : output.o[i].k = "monitors"].v).a[1]
  ELSE [t |-> "obj", o |-> <<>>]

\* the values a record holds under a key
ValuesAt(record, k) == {record.o[i].v : i \in {j \in 1..Len(record.o) : record.o[j].k = k}}

TopMonitorInputs == {[t |-> "obj", o |-> <<[k |-> "monitors", v |-> [t |-> "arr", a |-> <<m>>]]>>] :
                       m \in FlagMonitors}

\* C18: in a compressed monitor each of connector, endpoint and is_endpoint
\* is present exactly when the monitor held it with the value true, and
\* then with the value true
C18_FalseFlagsRemovedTrueFlagsKept ==
  (cmOnce # NotRun /\ cmOutput \in TopMonitorInputs) =>
    \A f \in {"connector", "endpoint", "is_endpoint"} :
      ValuesAt(OnlyMonitor(cmOnce.v), f)
        = ValuesAt(OnlyMonitor(cmOutput), f) \cap {[t |-> "bool", b |-> TRUE]}

\* { connector: false, endpoint: false, is_endpoint: true } compresses to
\* { is_endpoint: true }
C18_Witness ==
  /\ cmOutput = Obj(<<P("monitors", Arr(<<Obj(<<P("connector", Bool(FALSE)),
                                               P("endpoint", Bool(FALSE)),
                                               P("is_endpoint", Bool(TRUE))>>)>>))>>)
  /\ cmOnce = Ran(Obj(<<P("monitors", Arr(<<Obj(<<P("is_endpoint", Bool(TRUE))>>)>>))>>))

\* a value that is a non-empty string, a number or a boolean
Meaningful(v) == v.t \in {"num", "bool"} \/ (v.t = "str" /\ v.len > 0)

\* the fields of a record with such a value, but for the false flags, the
\* listed fields and the status text that is deduplicated
MeaningfulFields(record) ==
  {record.o[i] : i \in {j \in 1..Len(record.o) :
      /\ Meaningful(record.o[j].v)
      /\ record.o[j].k \notin
           {"discoveryTime", "identifyingAttributeKeys", "StatusInformation"}
      /\ ~(/\ record.o[j].k \in {"connector", "endpoint", "endpointHost", "is_endpoint"}
           /\ record.o[j].v = [t |-> "bool", b |-> FALSE])}}

FieldsOf(record) == {record.o[i] : i \in 1..Len(record.o)}

\* the record a record holds under a key, the empty record when it holds none
RecordAt(record, k) ==
  IF \E v \in ValuesAt(record, k) : v.t = "obj"
  THEN CHOOSE v \in ValuesAt(record, k) : v.t = "obj"
  ELSE [t |-> "obj", o |-> <<>>]

\* C19: a compressed monitor holds every meaningful field of the monitor,
\* and its legacyTextParameters hold every meaningful parameter
C19_MeaningfulFieldsKept ==
  (cmOnce # NotRun /\ cmOutput.t = "obj" /\ cmOutput.o # <<>>
     /\ cmOutput.o[1].k = "monitors" /\ cmOutput.o[1].v.t = "arr") =>
    /\ MeaningfulFields(OnlyMonitor(cmOutput)) \subseteq FieldsOf(OnlyMonitor(cmOnce.v))
    /\ MeaningfulFields(RecordAt(OnlyMonitor(cmOutput), "legacyTextParameters"))
         \subseteq FieldsOf(RecordAt(OnlyMonitor(cmOnce.v), "legacyTextParameters"))


=============================================================================
